---- MODULE Spec2Model ----
(***************************************************************************)
(* Sentinel-G3: the audit -> fix -> apply cycle.                           *)
(*                                                                         *)
(*   app/agents/base.py      BaseAgent: primary / fallback model selection *)
(*   app/agents/auditor.py   AuditorAgent: per-file scan with retry        *)
(*   app/agents/fixer.py     FixerAgent: patch generation with retry, and  *)
(*                           the backup-then-overwrite write               *)
(*   app/orchestrator.py     SentinelOrchestrator.run_self_healing_cycle   *)
(*   app/api/routes.py       run_scan._stream, the streaming coordinator   *)
(*                                                                         *)
(* The remote inference service and the filesystem are the environment:    *)
(* every inference call and every disk operation draws its outcome from a  *)
(* small set.  One call of _call_with_fallback / _generate_with_fallback   *)
(* is one step; the outcomes the service gives to its successive attempts  *)
(* are the step's input (a "script"), and the step records what the call   *)
(* did, in order, in the variable trace.                                   *)
(***************************************************************************)
EXTENDS Integers, Sequences, FiniteSets, TLC

\* ------------------------------------------------------------------ bounds
MaxUnits == 2        \* source files under the scanned root
MaxFindings == 2     \* findings returned by one scan
MaxTroubled == 1     \* calls of one run that do not go the plain way
MaxGuardCalls == 3   \* calls of _write_patch made on its own
MaxClock == 2        \* seconds that pass between them
MaxChunks == 4       \* parts of one streamed answer
MaxRetryChunks == 1  \* parts of one stream of a call that is retried
MaxParts == 2        \* parts of one response
MaxBlobLen == 3      \* bytes of one signature blob

\* ------------------------------------------------------- program constants
_MAX_RETRIES == 3
_BASE_DELAY == 2
PACING_DELAY == 1

Agents == {"auditor", "fixer"}
Modes == {"blocking", "streaming"}

\* Paths relative to the scanned root.  1..MaxUnits are the collected source
\* files in the order _collect_files yields them (sorted); OutsidePath is a
\* path the service may name that is not one of them.
OutsidePath == 0
Units == 1..MaxUnits
Paths == {OutsidePath} \cup Units
NoKey == -1          \* a response item without a "file_path" key

VARIABLES
    settings,        \* GEMINI_MODEL, GEMINI_FALLBACK_MODEL
    _using_fallback, \* BaseAgent._using_fallback, per agent
    n_switched,      \* per agent, the switch_to_fallback calls that returned True
    mode,            \* run_self_healing_cycle or run_scan._stream
    pc,              \* the coordinator's position
    root_is_dir,     \* Path(repo_path).is_dir()
    files,           \* number of files _collect_files returns
    idx,             \* loop index: unit (scanning) or finding (fixing), 1-based
    results,         \* analyze_repository: results
    audit_result,    \* AuditResult: vulnerabilities, scanned_files
    trace,           \* the attempts, sleeps and switch requests of the
                     \* coordinator's last step, in order
    call,            \* which agent's retry engine that step called, and how
                     \* the call ended
    patch,           \* the PatchResult of the finding being applied
    disk,            \* path -> content, for the paths that exist
    backups,         \* <<path, timestamp>> -> content
    now,             \* the UTC clock, in seconds
    ioLog,           \* disk operations of the fixing stage, in order
    entries,         \* the coordinator's entries list
    manifest,        \* the entries handed to _write_manifest
    healed_count,
    summary,         \* the HealingCycleSummary returned / emitted
    manifest_file,   \* run_manifest.json on disk
    troubled,        \* calls so far that did not go the plain way
    last_response,   \* BaseAgent.last_response, per agent
    stream,          \* generate_content_stream: the chunks not yet consumed
    text_parts,      \* _stream_with_thinking: text_parts
    thinking_queue,  \* run_scan._stream: thinking_queue
    fixer_thinking_parts,
    fixer_task,      \* the task running _run_fixer: its state and result
    sse,             \* the "thinking" events the stream has yielded
    attempt_no       \* _generate_with_fallback: attempt, in a streamed call

vars == <<settings, _using_fallback, n_switched, mode, pc, root_is_dir, files,
          idx, results, audit_result, trace, call, patch, disk, backups, now,
          ioLog, entries, manifest, healed_count, summary, manifest_file,
          troubled, last_response, stream, text_parts, thinking_queue,
          fixer_thinking_parts, fixer_task, sse, attempt_no>>

\* The state of one streamed patch call.
streamVars == <<stream, text_parts, thinking_queue, fixer_thinking_parts,
                fixer_task, sse, attempt_no>>

\* ----------------------------------------------------------- sequences
Last(s) == s[Len(s)]

RECURSIVE Flatten(_)
Flatten(ss) == IF ss = <<>> THEN <<>> ELSE Head(ss) \o Flatten(Tail(ss))

RECURSIVE SumDelays(_)
SumDelays(tr) ==
    IF tr = <<>> THEN 0 ELSE Head(tr).d + SumDelays(Tail(tr))

\* The clock after d seconds have passed at time t.  Seconds are told apart
\* only as far as a backup name can tell them apart: the clock moves to the
\* next second when time passes after a backup was stamped with this one.
Elapse(t, d, b) ==
    IF d > 0 /\ \E k \in DOMAIN b : k[2] = t THEN t + 1 ELSE t

\* ------------------------------------------------------------ base.py
\* Variants of active_model: the property read without looking at the flag,
\* and with the two model ids the wrong way round.
active_model_always_primary(uf) == settings.GEMINI_MODEL

active_model_swapped(uf) ==
    IF uf THEN settings.GEMINI_MODEL ELSE settings.GEMINI_FALLBACK_MODEL

active_model(uf) ==
    IF uf THEN settings.GEMINI_FALLBACK_MODEL ELSE settings.GEMINI_MODEL

\* Variants of switch_to_fallback: without the comparison of the two model
\* ids, and without the assignment to _using_fallback.
switch_to_fallback_same_ids(uf) ==
    IF uf THEN [ret |-> FALSE, uf |-> uf] ELSE [ret |-> TRUE, uf |-> TRUE]

switch_to_fallback_no_flag(uf) ==
    IF uf THEN [ret |-> FALSE, uf |-> uf]
    ELSE IF settings.GEMINI_MODEL = settings.GEMINI_FALLBACK_MODEL
         THEN [ret |-> FALSE, uf |-> uf]
         ELSE [ret |-> TRUE, uf |-> uf]

\* Returns the value returned and the new _using_fallback.
switch_to_fallback(uf) ==
    IF uf THEN [ret |-> FALSE, uf |-> uf]
    ELSE IF settings.GEMINI_MODEL = settings.GEMINI_FALLBACK_MODEL
         THEN [ret |-> FALSE, uf |-> uf]
         ELSE [ret |-> TRUE, uf |-> TRUE]

\* ------------------------------------------------------ events of a step
\* Every event carries uf, the agent's _using_fallback right after it.
EvAttempt(m, r, k, uf) ==
    [e |-> "attempt", m |-> m, r |-> r, k |-> k, d |-> 0, uf |-> uf]
EvSleep(d, uf) ==
    [e |-> "sleep", m |-> "", r |-> "", k |-> 0, d |-> d, uf |-> uf]
EvSwitch(ret, uf) ==
    [e |-> "switch", m |-> "", r |-> IF ret THEN "switched" ELSE "refused",
     k |-> 0, d |-> 0, uf |-> uf]
EvPace(uf) ==
    [e |-> "pace", m |-> "", r |-> "", k |-> 0, d |-> PACING_DELAY, uf |-> uf]

\* Variant of Delay: the exponent is the attempt number (4, 8, 16).
DelayFromAttempt(attempt) == _BASE_DELAY * (2 ^ attempt)

\* Variant of Delay: a linear back-off.
DelayLinear(attempt) == _BASE_DELAY * attempt

\* exponential back-off: _BASE_DELAY * (2 ** (attempt - 1))
Delay(attempt) == _BASE_DELAY * (2 ^ (attempt - 1))

\* Variant of Retryable: every ClientError is retried.
RetryableAnyClientError(kind) == kind \in {"quota", "client_error"}

\* "except ClientError as exc: if exc.code != 429: ... return": only a
\* quota error is retried.
Retryable(kind) == kind = "quota"

\* --------------------------------------------- the service, seen by a call
\* One outcome per inference attempt: a response, a ClientError with code 429
\* ("quota"), a ClientError with another code, or any other exception.
Outcome(kind, resp) == [kind |-> kind, resp |-> resp]

RECURSIVE Quotas(_, _)
Quotas(n, none) ==
    IF n = 0 THEN <<>> ELSE <<Outcome("quota", none)>> \o Quotas(n - 1, none)

\* The outcome sequences one call can consume: quota errors, then an end.
Scripts(ends, none) ==
    { Quotas(n, none) \o <<t>> : n \in 0..(2 * _MAX_RETRIES - 1), t \in ends }
        \cup { Quotas(n, none) : n \in {_MAX_RETRIES, 2 * _MAX_RETRIES} }

\* ---------------------------------------------------------- auditor.py
Item(fp, ln, v) == [file_path |-> fp, line_number |-> ln, valid |-> v]
Vulnerability(fp, ln) == [file_path |-> fp, line_number |-> ln]

\* What the service may put in one item of its answer for unit u.
ItemChoices(u) ==
    { [file_path |-> fp, valid |-> TRUE] : fp \in {NoKey, OutsidePath} }

\* response.text of a scan answer: not JSON, a JSON object, or a JSON array.
AuditResponses(u, room) ==
    { [json |-> "malformed", value |-> <<>>] }
        \cup { [json |-> "object", value |-> Item(c.file_path, 1, c.valid)] :
                 c \in IF room > 0 THEN ItemChoices(u) ELSE {} }
        \cup { [json |-> "list",
                value |-> [i \in 1..Len(f) |->
                            Item(f[i].file_path, i, f[i].valid)]] :
                 f \in UNION { [1..n -> ItemChoices(u)] : n \in 0..room } }

NoAuditResponse == [json |-> "malformed", value |-> <<>>]

\* json.loads(response.text), a value that is not a list wrapped in one; no
\* items when the text is not JSON.
RawItems(response) ==
    IF response.json = "malformed" THEN <<>>
    ELSE IF response.json = "list" THEN response.value
    ELSE <<response.value>>

\* Variant of _parse_response: an item is taken as it is, a missing
\* file_path is not filled in.
_parse_response_no_default(response, fallback_path) ==
    LET kept == SelectSeq(RawItems(response), LAMBDA it : it.valid)
    IN [i \in 1..Len(kept) |->
           Vulnerability(kept[i].file_path, kept[i].line_number)]

_parse_response(response, fallback_path) ==
    IF response.json = "malformed" THEN <<>>
    ELSE LET raw == RawItems(response)
             defaulted == [i \in 1..Len(raw) |->
                 IF raw[i].file_path = NoKey
                 THEN [raw[i] EXCEPT !.file_path = fallback_path]
                 ELSE raw[i]]
             kept == SelectSeq(defaulted, LAMBDA it : it.valid)
         IN [i \in 1..Len(kept) |->
                Vulnerability(kept[i].file_path, kept[i].line_number)]

\* The for loop over attempts and the recursive call after a switch.
\* Returns the list returned, the new _using_fallback, the events, the
\* outcomes not consumed, and how the call ended.
RECURSIVE _call_with_fallback(_, _, _, _, _)
_call_with_fallback(rel_path, uf, attempt, script, tr) ==
    IF attempt > _MAX_RETRIES
    THEN LET sw == switch_to_fallback(uf) IN
         IF sw.ret
         THEN _call_with_fallback(rel_path, sw.uf, 1, script,
                                  Append(tr, EvSwitch(TRUE, sw.uf)))
         ELSE [ret |-> <<>>, uf |-> sw.uf,
               trace |-> Append(tr, EvSwitch(FALSE, sw.uf)),
               rest |-> script, outcome |-> "exhausted"]
    ELSE IF script = <<>>
    THEN [ret |-> <<>>, uf |-> uf, trace |-> tr, rest |-> script,
          outcome |-> "pending"]
    ELSE LET o == Head(script)
             m == active_model(uf)
         IN CASE o.kind = "ok" ->
                  [ret |-> _parse_response(o.resp, rel_path), uf |-> uf,
                   trace |-> Append(tr, EvAttempt(m, "ok", attempt, uf)),
                   rest |-> Tail(script), outcome |-> "ok",
                   resp |-> o.resp]
              [] Retryable(o.kind) ->
                  _call_with_fallback(rel_path, uf, attempt + 1, Tail(script),
                      tr \o <<EvAttempt(m, o.kind, attempt, uf),
                              EvSleep(Delay(attempt), uf)>>)
              [] OTHER ->
                  [ret |-> <<>>, uf |-> uf,
                   trace |-> Append(tr, EvAttempt(m, o.kind, attempt, uf)),
                   rest |-> Tail(script), outcome |-> o.kind]

AuditEnds(u, room) ==
    { Outcome("ok", r) : r \in AuditResponses(u, room) }
        \cup { Outcome("client_error", NoAuditResponse),
               Outcome("exception", NoAuditResponse) }

\* ------------------------------------------------------------ fixer.py
\* Text is a sequence of tokens: "F" is a code fence (three backticks),
\* "n" a newline, "s" a space, anything else a word character.
IsSpace(t) == t \in {"n", "s"}
IsWord(t) == t \notin {"F", "n", "s"}

RECURSIVE LStrip(_)
LStrip(s) == IF s # <<>> /\ IsSpace(Head(s)) THEN LStrip(Tail(s)) ELSE s

RECURSIVE RStrip(_)
RStrip(s) ==
    IF s # <<>> /\ IsSpace(s[Len(s)]) THEN RStrip(SubSeq(s, 1, Len(s) - 1))
    ELSE s

\* Variant of strip: white space is left where it is.
strip_nothing(s) == s

strip(s) == RStrip(LStrip(s))

\* First position >= i whose token is not in the class, or Len(s) + 1.
RECURSIVE SkipWords(_, _)
SkipWords(s, i) ==
    IF i <= Len(s) /\ IsWord(s[i]) THEN SkipWords(s, i + 1) ELSE i

RECURSIVE SkipSpaces(_, _)
SkipSpaces(s, i) ==
    IF i <= Len(s) /\ IsSpace(s[i]) THEN SkipSpaces(s, i + 1) ELSE i

\* re.search(r"```(?:\w+)?\s*\n(.*?)```", raw, re.DOTALL) matching at i:
\* the fence, a run of word characters, white space holding a newline,
\* and a closing fence somewhere after it.
BodyStart(raw, i) == SkipSpaces(raw, SkipWords(raw, i + 1))

FenceAt(raw, i) ==
    /\ raw[i] = "F"
    /\ \E p \in SkipWords(raw, i + 1)..(BodyStart(raw, i) - 1) : raw[p] = "n"
    /\ \E q \in BodyStart(raw, i)..Len(raw) : raw[q] = "F"

_extract_code(raw) ==
    IF \E i \in 1..Len(raw) : FenceAt(raw, i)
    THEN LET i == CHOOSE i \in 1..Len(raw) :
                      FenceAt(raw, i) /\ \A j \in 1..(i - 1) : ~FenceAt(raw, j)
             k == BodyStart(raw, i)
             q == CHOOSE q \in k..Len(raw) :
                      raw[q] = "F" /\ \A j \in k..(q - 1) : raw[j] # "F"
         IN strip(SubSeq(raw, k, q - 1))
    ELSE strip(raw)

\* The answers the service may give to a patch request (response.text, or
\* the joined answer chunks of a stream).
RawTexts ==
    { <<>>, <<"s", "n">>, <<"x">>, <<"F", "p", "n", "x", "n", "F">>,
      <<"F", "n", "F">> }

PatchResult(fp, orig, fixed, ok, msg) ==
    [file_path |-> fp, original_code |-> orig, fixed_code |-> fixed,
     success |-> ok, message |-> msg]

RECURSIVE _generate_with_fallback(_, _, _, _, _, _)
_generate_with_fallback(vulnerability, original_code, uf, attempt, script, tr) ==
    IF attempt > _MAX_RETRIES
    THEN LET sw == switch_to_fallback(uf) IN
         IF sw.ret
         THEN _generate_with_fallback(vulnerability, original_code, sw.uf, 1,
                  script, Append(tr, EvSwitch(TRUE, sw.uf)))
         ELSE [ret |-> PatchResult(vulnerability.file_path, original_code,
                           <<>>, FALSE, <<"Rate-limited on both models">>),
               uf |-> sw.uf, trace |-> Append(tr, EvSwitch(FALSE, sw.uf)),
               rest |-> script, outcome |-> "exhausted"]
    ELSE IF script = <<>>
    THEN [ret |-> PatchResult(vulnerability.file_path, original_code, <<>>,
                              FALSE, <<>>),
          uf |-> uf, trace |-> tr, rest |-> script, outcome |-> "pending",
          attempt |-> attempt]
    ELSE LET o == Head(script)
             m == active_model(uf)
             fixed_code == _extract_code(o.resp)
         IN CASE o.kind = "ok" ->
                  [ret |-> IF strip(fixed_code) = <<>>
                           THEN PatchResult(vulnerability.file_path,
                                    original_code, <<>>, FALSE,
                                    <<"Gemini returned an empty response.">>)
                           ELSE PatchResult(vulnerability.file_path,
                                    original_code, fixed_code, TRUE,
                                    <<"Patch generated successfully", m>>),
                   uf |-> uf,
                   trace |-> Append(tr, EvAttempt(m, "ok", attempt, uf)),
                   rest |-> Tail(script), outcome |-> "ok"]
              [] Retryable(o.kind) ->
                  _generate_with_fallback(vulnerability, original_code, uf,
                      attempt + 1, Tail(script),
                      tr \o <<EvAttempt(m, o.kind, attempt, uf),
                              EvSleep(Delay(attempt), uf)>>)
              [] o.kind = "client_error" ->
                  [ret |-> PatchResult(vulnerability.file_path, original_code,
                               <<>>, FALSE, <<"Gemini error">>),
                   uf |-> uf,
                   trace |-> Append(tr, EvAttempt(m, o.kind, attempt, uf)),
                   rest |-> Tail(script), outcome |-> o.kind]
              [] OTHER ->
                  [ret |-> PatchResult(vulnerability.file_path, original_code,
                               <<>>, FALSE, <<"Unexpected error">>),
                   uf |-> uf,
                   trace |-> Append(tr, EvAttempt(m, o.kind, attempt, uf)),
                   rest |-> Tail(script), outcome |-> o.kind]

FixEnds ==
    { Outcome("ok", r) : r \in RawTexts }
        \cup { Outcome("client_error", <<>>), Outcome("exception", <<>>) }

\* A disk operation: what was done to which path, with which content, and
\* whether it succeeded.
IoOp(op, path, content, ok) ==
    [op |-> op, path |-> path, content |-> content, ok |-> ok]

\* f with key k set to v, k added to the domain if need be.
Put(f, k, v) == [x \in DOMAIN f \cup {k} |-> IF x = k THEN v ELSE f[x]]

\* Variant of _write_patch: a failed copy is swallowed and the target is
\* written all the same.
_write_patch_unguarded(file_path, fixed_code, d, b, ts, copy_ok, write_ok) ==
    IF file_path \notin DOMAIN d
    THEN [disk |-> d, backups |-> b, ops |-> <<>>,
          raised |-> "FileNotFoundError"]
    ELSE LET b1 == IF copy_ok THEN Put(b, <<file_path, ts>>, d[file_path])
                   ELSE b
             copied == IoOp("copy", file_path, d[file_path], copy_ok)
         IN IF ~write_ok
            THEN [disk |-> d, backups |-> b1,
                  ops |-> <<copied, IoOp("write", file_path, fixed_code, FALSE)>>,
                  raised |-> "OSError"]
            ELSE [disk |-> [d EXCEPT ![file_path] = fixed_code],
                  backups |-> b1,
                  ops |-> <<copied, IoOp("write", file_path, fixed_code, TRUE)>>,
                  raised |-> ""]

\* Variant of _write_patch: the target is written first and copied to the
\* backup afterwards.
_write_patch_backup_after(file_path, fixed_code, d, b, ts, copy_ok, write_ok) ==
    IF file_path \notin DOMAIN d
    THEN [disk |-> d, backups |-> b, ops |-> <<>>,
          raised |-> "FileNotFoundError"]
    ELSE IF ~write_ok
    THEN [disk |-> d, backups |-> b,
          ops |-> <<IoOp("write", file_path, fixed_code, FALSE)>>,
          raised |-> "OSError"]
    ELSE LET d1 == [d EXCEPT ![file_path] = fixed_code]
             written == IoOp("write", file_path, fixed_code, TRUE)
         IN IF ~copy_ok
            THEN [disk |-> d1, backups |-> b,
                  ops |-> <<written, IoOp("copy", file_path, fixed_code, FALSE)>>,
                  raised |-> "OSError"]
            ELSE [disk |-> d1,
                  backups |-> Put(b, <<file_path, ts>>, fixed_code),
                  ops |-> <<written, IoOp("copy", file_path, fixed_code, TRUE)>>,
                  raised |-> ""]

\* Variant of _write_patch: without the check that the target exists, a
\* missing target is created by the write.
_write_patch_creates(file_path, fixed_code, d, b, ts, copy_ok, write_ok) ==
    IF file_path \notin DOMAIN d
    THEN [disk |-> Put(d, file_path, fixed_code), backups |-> b,
          ops |-> <<IoOp("write", file_path, fixed_code, TRUE)>>,
          raised |-> ""]
    ELSE IF ~copy_ok
    THEN [disk |-> d, backups |-> b,
          ops |-> <<IoOp("copy", file_path, d[file_path], FALSE)>>,
          raised |-> "OSError"]
    ELSE LET b1 == Put(b, <<file_path, ts>>, d[file_path])
             copied == IoOp("copy", file_path, d[file_path], TRUE)
         IN IF ~write_ok
            THEN [disk |-> d, backups |-> b1,
                  ops |-> <<copied, IoOp("write", file_path, fixed_code, FALSE)>>,
                  raised |-> "OSError"]
            ELSE [disk |-> [d EXCEPT ![file_path] = fixed_code],
                  backups |-> b1,
                  ops |-> <<copied, IoOp("write", file_path, fixed_code, TRUE)>>,
                  raised |-> ""]

\* _write_patch on disk d with backups b at time ts; copy_ok and write_ok are
\* whether shutil.copy2 and target.write_text succeed.  Returns the disk and
\* backups after the call, the operations done in order, and the exception
\* raised ("" when the call returns).
\* Variant of _write_patch: the target is written without a backup.
_write_patch_no_backup(file_path, fixed_code, d, b, ts, copy_ok, write_ok) ==
    IF file_path \notin DOMAIN d
    THEN [disk |-> d, backups |-> b, ops |-> <<>>,
          raised |-> "FileNotFoundError"]
    ELSE IF ~write_ok
    THEN [disk |-> d, backups |-> b,
          ops |-> <<IoOp("write", file_path, fixed_code, FALSE)>>,
          raised |-> "OSError"]
    ELSE [disk |-> [d EXCEPT ![file_path] = fixed_code], backups |-> b,
          ops |-> <<IoOp("write", file_path, fixed_code, TRUE)>>,
          raised |-> ""]

_write_patch(file_path, fixed_code, d, b, ts, copy_ok, write_ok) ==
    IF file_path \notin DOMAIN d
    THEN [disk |-> d, backups |-> b, ops |-> <<>>,
          raised |-> "FileNotFoundError"]
    ELSE IF ~copy_ok
    THEN [disk |-> d, backups |-> b,
          ops |-> <<IoOp("copy", file_path, d[file_path], FALSE)>>,
          raised |-> "OSError"]
    ELSE LET b1 == Put(b, <<file_path, ts>>, d[file_path])
             copied == IoOp("copy", file_path, d[file_path], TRUE)
         IN IF ~write_ok
            THEN [disk |-> d, backups |-> b1,
                  ops |-> <<copied, IoOp("write", file_path, fixed_code, FALSE)>>,
                  raised |-> "OSError"]
            ELSE [disk |-> [d EXCEPT ![file_path] = fixed_code],
                  backups |-> b1,
                  ops |-> <<copied, IoOp("write", file_path, fixed_code, TRUE)>>,
                  raised |-> ""]

\* ------------------------------------------------------------ responses
\* A part of a response: whether it is tagged as reasoning, its text, and
\* its thought_signature, a sequence of bytes (empty when there is none).
Part(thought, text, sig) ==
    [thought |-> thought, text |-> text, thought_signature |-> sig]

\* The response an agent got in a call; of is the unit (auditor) or the
\* finding (fixer) the call was made for.  The service signs the reasoning
\* of each call with a blob of its own: here, a byte for the agent and a
\* byte for the call.
AgentByte(agent) == IF agent = "auditor" THEN 65 ELSE 70

Response(agent, of) ==
    [agent |-> agent, of |-> of,
     parts |-> <<Part(TRUE, <<"t">>, <<AgentByte(agent), of>>),
                 Part(FALSE, <<"a">>, <<>>)>>]

NoResponse == [agent |-> "none", of |-> 0, parts |-> <<>>]

\* ------------------------------------------------------------- base64
\* The base64 alphabet; character i + 1 stands for the six-bit value i.
B64Chars ==
    <<"A", "B", "C", "D", "E", "F", "G", "H", "I", "J", "K", "L", "M",
      "N", "O", "P", "Q", "R", "S", "T", "U", "V", "W", "X", "Y", "Z",
      "a", "b", "c", "d", "e", "f", "g", "h", "i", "j", "k", "l", "m",
      "n", "o", "p", "q", "r", "s", "t", "u", "v", "w", "x", "y", "z",
      "0", "1", "2", "3", "4", "5", "6", "7", "8", "9", "+", "/">>

B64Value(c) == (CHOOSE i \in 1..64 : B64Chars[i] = c) - 1

\* base64.b64encode(bytes).decode("ascii"): three bytes give four
\* characters; a last group of one or two bytes is filled up with "=".
RECURSIVE b64encode(_)
b64encode(bytes) ==
    IF bytes = <<>> THEN <<>>
    ELSE LET n == Len(bytes)
             b1 == bytes[1]
             b2 == IF n >= 2 THEN bytes[2] ELSE 0
             b3 == IF n >= 3 THEN bytes[3] ELSE 0
         IN <<B64Chars[(b1 \div 4) + 1],
              B64Chars[((b1 % 4) * 16 + (b2 \div 16)) + 1],
              IF n >= 2 THEN B64Chars[((b2 % 16) * 4 + (b3 \div 64)) + 1]
              ELSE "=",
              IF n >= 3 THEN B64Chars[(b3 % 64) + 1] ELSE "=">>
            \o (IF n > 3 THEN b64encode(SubSeq(bytes, 4, n)) ELSE <<>>)

\* base64.b64decode(text) on text made of whole groups of four characters.
RECURSIVE b64decode(_)
b64decode(text) ==
    IF Len(text) < 4 THEN <<>>
    ELSE LET v1 == B64Value(text[1])
             v2 == B64Value(text[2])
             v3 == IF text[3] = "=" THEN 0 ELSE B64Value(text[3])
             v4 == IF text[4] = "=" THEN 0 ELSE B64Value(text[4])
             d1 == v1 * 4 + (v2 \div 16)
             d2 == (v2 % 16) * 16 + (v3 \div 4)
             d3 == (v3 % 4) * 64 + v4
         IN (IF text[3] = "=" THEN <<d1>>
             ELSE IF text[4] = "=" THEN <<d1, d2>>
             ELSE <<d1, d2, d3>>)
            \o b64decode(SubSeq(text, 5, Len(text)))

\* -------------------------------------------------------- orchestrator.py
\* extract_thought_signatures: one item per part that is tagged as
\* reasoning and has a signature.
\* Variant of extract_thought_signatures: every reasoning part is stored,
\* with or without a signature.
extract_thought_signatures_unsigned(response) ==
    LET signed == SelectSeq(response.parts, LAMBDA part : part.thought)
    IN [i \in 1..Len(signed) |->
          [thought_text |-> signed[i].text,
           thought_signature |-> b64encode(signed[i].thought_signature)]]

extract_thought_signatures(response) ==
    LET signed == SelectSeq(response.parts,
                     LAMBDA part : part.thought
                                   /\ part.thought_signature # <<>>)
    IN [i \in 1..Len(signed) |->
          [thought_text |-> signed[i].text,
           thought_signature |-> b64encode(signed[i].thought_signature)]]

\* "if self.fixer.last_response: fixer_sigs = ..." and the same for the
\* auditor: the signatures of the response the agent holds, if any.
SigsHeld(response) ==
    IF response = NoResponse THEN <<>>
    ELSE extract_thought_signatures(response)

HealingEntry(vuln, p, healed) ==
    [vulnerability |-> vuln, patch |-> p, healed |-> healed]

_build_manifest_entry(vuln, healed, p, auditor_thought_signatures, fixer_thought_signatures) ==
    [file_path |-> vuln.file_path, line_number |-> vuln.line_number,
     healed |-> healed, patch_message |-> p.message,
     auditor_thought_signatures |-> auditor_thought_signatures,
     fixer_thought_signatures |-> fixer_thought_signatures]

HealingCycleSummary(scanned, found, healed, es) ==
    [scanned_files |-> scanned, vulnerabilities_found |-> found,
     vulnerabilities_healed |-> healed, entries |-> es]

\* The document _write_manifest serialises.
ManifestDoc(sm, manifest_entries) ==
    [summary |-> [scanned_files |-> sm.scanned_files,
                  vulnerabilities_found |-> sm.vulnerabilities_found,
                  vulnerabilities_healed |-> sm.vulnerabilities_healed],
     entries |-> manifest_entries]

vulns == audit_result.vulnerabilities
NoPatch == PatchResult(NoKey, <<>>, <<>>, FALSE, <<>>)
NoCall == [agent |-> "none", outcome |-> "none", unit |-> NoKey,
           findings |-> <<>>, answer |-> "none", raw |-> <<>>,
           patch |-> NoPatch]

\* The task that runs _run_fixer.
NoTask == [state |-> "none", result |-> NoPatch]

\* Variant of ShouldApply: every patch is applied.
ShouldApplyAlways(p) == TRUE

\* "if patch.success and patch.fixed_code": whether the patch is applied.
ShouldApply(p) == p.success /\ p.fixed_code # <<>>
OriginalText == <<"o">>

\* Variant of read_text: the content the scanner collected is used instead
\* of a fresh read.
read_text_scan_snapshot(d, file_path) == OriginalText

\* file_abs.read_text("utf-8") in the fix loop: the file as it is on disk at
\* that moment.
read_text(d, file_path) == d[file_path]

Init ==
    /\ settings \in { [GEMINI_MODEL |-> "flash", GEMINI_FALLBACK_MODEL |-> f] :
                        f \in {"flash", "pro"} }
    /\ _using_fallback = [a \in Agents |-> FALSE]
    /\ n_switched = [a \in Agents |-> 0]
    /\ mode \in Modes
    /\ pc = "init"
    /\ root_is_dir \in BOOLEAN
    /\ files \in 0..MaxUnits
    /\ (~root_is_dir => files = 0)
    /\ idx = 1
    /\ results = <<>>
    /\ audit_result = [vulnerabilities |-> <<>>, scanned_files |-> 0]
    /\ trace = <<>>
    /\ call = NoCall
    /\ patch = NoPatch
    /\ disk = [p \in (1..files) \cup {OutsidePath} |-> OriginalText]
    /\ backups = [k \in {} |-> <<>>]
    /\ now = 0
    /\ ioLog = <<>>
    /\ entries = <<>>
    /\ manifest = <<>>
    /\ healed_count = 0
    /\ summary = <<>>
    /\ manifest_file = <<>>
    /\ troubled = 0
    /\ last_response = [a \in Agents |-> NoResponse]
    /\ stream = <<>>
    /\ text_parts = <<>>
    /\ thinking_queue = <<>>
    /\ fixer_thinking_parts = <<>>
    /\ fixer_task = NoTask
    /\ sse = <<>>
    /\ attempt_no = 1

\* Number of switch_to_fallback calls of a step that returned True.
Switched(tr) == Len(SelectSeq(tr, LAMBDA ev : ev.e = "switch" /\ ev.r = "switched"))

\* The environment is bounded by the number of calls (an inference call
\* with its retries, or a disk operation) that do not go the plain way: a
\* failure, a retry, or an answer that is unusable or names a path outside
\* the scanned set.
Trouble(failed) ==
    /\ failed => troubled < MaxTroubled
    /\ troubled' = troubled + (IF failed THEN 1 ELSE 0)

AuditAnswerOdd(o) ==
    /\ o.kind = "ok"
    /\ \/ o.resp.json # "list"
       \/ \E i \in 1..Len(o.resp.value) :
             o.resp.value[i].file_path = OutsidePath

FixAnswerOdd(o) == o.kind = "ok" /\ strip(_extract_code(o.resp)) = <<>>

\* Variant of EngineEffects: a call that ends with a usable response puts
\* the agent back on the primary model.
EngineEffectsRecovering(agent, r, odd) ==
    /\ r.rest = <<>>
    /\ r.outcome # "pending"
    /\ Trouble(\/ r.outcome # "ok"
               \/ \E i \in 1..Len(r.trace) : r.trace[i].e = "sleep"
               \/ odd)
    /\ _using_fallback' = [_using_fallback EXCEPT
                              ![agent] = r.uf /\ r.outcome # "ok"]
    /\ n_switched' = [n_switched EXCEPT ![agent] = @ + Switched(r.trace)]
    /\ trace' = r.trace
    /\ call' = [agent |-> agent, outcome |-> r.outcome,
                unit |-> IF agent = "auditor" THEN idx ELSE NoKey,
                findings |-> IF agent = "auditor" THEN r.ret ELSE <<>>,
                answer |-> IF agent = "auditor" /\ r.outcome = "ok"
                           THEN r.resp.json ELSE "none",
                raw |-> IF agent = "auditor" /\ r.outcome = "ok"
                        THEN RawItems(r.resp) ELSE <<>>,
                patch |-> IF agent = "fixer" THEN r.ret ELSE NoPatch]
    /\ now' = Elapse(now, SumDelays(r.trace), backups)
    /\ last_response' =
          IF r.outcome = "ok" /\ ~(agent = "fixer" /\ mode = "streaming")
          THEN [last_response EXCEPT ![agent] = Response(agent, idx)]
          ELSE last_response

\* What one retry-engine call leaves behind in the agent and the clock.
EngineEffects(agent, r, odd) ==
    /\ r.rest = <<>>
    /\ r.outcome # "pending"
    /\ Trouble(\/ r.outcome # "ok"
               \/ \E i \in 1..Len(r.trace) : r.trace[i].e = "sleep"
               \/ odd)
    /\ _using_fallback' = [_using_fallback EXCEPT ![agent] = r.uf]
    /\ n_switched' = [n_switched EXCEPT ![agent] = @ + Switched(r.trace)]
    /\ trace' = r.trace
    /\ call' = [agent |-> agent, outcome |-> r.outcome,
                unit |-> IF agent = "auditor" THEN idx ELSE NoKey,
                findings |-> IF agent = "auditor" THEN r.ret ELSE <<>>,
                answer |-> IF agent = "auditor" /\ r.outcome = "ok"
                           THEN r.resp.json ELSE "none",
                raw |-> IF agent = "auditor" /\ r.outcome = "ok"
                        THEN RawItems(r.resp) ELSE <<>>,
                patch |-> IF agent = "fixer" THEN r.ret ELSE NoPatch]
    /\ now' = Elapse(now, SumDelays(r.trace), backups)
    /\ last_response' =
          IF r.outcome = "ok" /\ ~(agent = "fixer" /\ mode = "streaming")
          THEN [last_response EXCEPT ![agent] = Response(agent, idx)]
          ELSE last_response

\* Variant of Pace: the pacing sleep is made before every iteration.
PaceAlways(uf) == <<EvPace(uf)>>

\* "if idx > 0: await asyncio.sleep(1)" at the head of an iteration.
Pace(uf) == IF idx > 1 THEN <<EvPace(uf)>> ELSE <<>>

\* Variant of StartRun: a root that is not a directory is scanned as a root
\* without source files.
StartRunLenient ==
    /\ pc = "init"
    /\ IF ~root_is_dir \/ files = 0
       THEN pc' = "audited"
            /\ audit_result' = [vulnerabilities |-> <<>>, scanned_files |-> 0]
       ELSE pc' = "scanning" /\ UNCHANGED audit_result
    /\ UNCHANGED <<streamVars, last_response, settings, _using_fallback, n_switched, mode, root_is_dir,
                   files, idx, results, trace, call, patch, disk, backups,
                   now, ioLog, entries, manifest, healed_count, summary,
                   manifest_file, troubled>>

\* analyze_repository up to the scan loop (and the coordinator's handling of
\* a scanner that raises).
StartRun ==
    /\ pc = "init"
    /\ IF ~root_is_dir
       THEN pc' = (IF mode = "blocking" THEN "raised" ELSE "done")
            /\ UNCHANGED audit_result
       ELSE IF files = 0
       THEN pc' = "audited"
            /\ audit_result' = [vulnerabilities |-> <<>>, scanned_files |-> 0]
       ELSE pc' = "scanning" /\ UNCHANGED audit_result
    /\ UNCHANGED <<streamVars, last_response, settings, _using_fallback, n_switched, mode, root_is_dir,
                   files, idx, results, trace, call, patch, disk, backups,
                   now, ioLog, entries, manifest, healed_count, summary,
                   manifest_file, troubled>>

\* Variant of ScanUnit: a unit whose call fails ends the scan.
ScanUnitAborting ==
    /\ pc = "scanning"
    /\ idx <= files
    /\ \E script \in Scripts(AuditEnds(idx, MaxFindings - Len(Flatten(results))),
                             NoAuditResponse) :
          LET r == _call_with_fallback(idx, _using_fallback["auditor"], 1,
                       script, Pace(_using_fallback["auditor"]))
              last == idx = files \/ r.outcome # "ok"
          IN /\ EngineEffects("auditor", r, AuditAnswerOdd(Last(script)))
             /\ IF last
                THEN /\ pc' = "audited"
                     /\ audit_result' =
                           [vulnerabilities |-> Flatten(Append(results, r.ret)),
                            scanned_files |-> idx]
                     /\ results' = <<>>
                     /\ idx' = 1
                ELSE /\ results' = Append(results, r.ret)
                     /\ idx' = idx + 1
                     /\ UNCHANGED <<pc, audit_result>>
    /\ UNCHANGED <<streamVars, settings, mode, root_is_dir, files, patch, disk, backups,
                   ioLog, entries, manifest, healed_count, summary,
                   manifest_file>>

\* One iteration of the scan loop: pacing sleep, _audit_single_file,
\* results.append; after the last unit, flatten and return the AuditResult.
ScanUnit ==
    /\ pc = "scanning"
    /\ idx <= files
    /\ \E script \in Scripts(AuditEnds(idx, MaxFindings - Len(Flatten(results))),
                             NoAuditResponse) :
          LET r == _call_with_fallback(idx, _using_fallback["auditor"], 1,
                       script, Pace(_using_fallback["auditor"]))
          IN /\ EngineEffects("auditor", r, AuditAnswerOdd(Last(script)))
             /\ IF idx = files
                THEN /\ pc' = "audited"
                     /\ audit_result' =
                           [vulnerabilities |-> Flatten(Append(results, r.ret)),
                            scanned_files |-> files]
                     /\ results' = <<>>
                ELSE /\ results' = Append(results, r.ret)
                     /\ UNCHANGED <<pc, audit_result>>
    /\ idx' = IF idx = files THEN 1 ELSE idx + 1
    /\ UNCHANGED <<streamVars, settings, mode, root_is_dir, files, patch, disk, backups,
                   ioLog, entries, manifest, healed_count, summary,
                   manifest_file>>

\* Variant of AfterAudit: without findings the run ends at once, no
\* manifest is written.
AfterAuditNoManifest ==
    /\ pc = "audited"
    /\ IF vulns = <<>>
       THEN /\ summary' = <<HealingCycleSummary(audit_result.scanned_files,
                                                0, 0, <<>>)>>
            /\ pc' = "done"
       ELSE /\ pc' = "fixing"
            /\ UNCHANGED summary
    /\ trace' = <<>>
    /\ call' = NoCall
    /\ UNCHANGED <<streamVars, last_response, settings, _using_fallback, n_switched, mode, root_is_dir,
                   files, idx, results, audit_result, patch, disk, backups,
                   now, ioLog, entries, manifest, healed_count, manifest_file,
                   troubled>>

\* "if not vulns": the blocking coordinator goes on to write the manifest,
\* the streaming one emits the summary and returns.
AfterAudit ==
    /\ pc = "audited"
    /\ IF vulns = <<>>
       THEN /\ summary' = <<HealingCycleSummary(audit_result.scanned_files,
                                                0, 0, <<>>)>>
            /\ pc' = (IF mode = "blocking" THEN "manifest" ELSE "done")
       ELSE /\ pc' = "fixing"
            /\ UNCHANGED summary
    /\ trace' = <<>>
    /\ call' = NoCall
    /\ UNCHANGED <<streamVars, last_response, settings, _using_fallback, n_switched, mode, root_is_dir,
                   files, idx, results, audit_result, patch, disk, backups,
                   now, ioLog, entries, manifest, healed_count, manifest_file,
                   troubled>>

\* Variant of Record: the fixing stage ends after the first finding.
RecordEndsEarly(p, healed, to_manifest) ==
    /\ entries' = Append(entries, HealingEntry(vulns[idx], p, healed))
    /\ manifest' = IF mode = "blocking" /\ to_manifest
                   THEN Append(manifest,
                               _build_manifest_entry(vulns[idx], healed, p,
                                   SigsHeld(last_response'["auditor"]),
                                   SigsHeld(last_response'["fixer"])))
                   ELSE manifest
    /\ healed_count' = healed_count + (IF healed THEN 1 ELSE 0)
    /\ idx' = idx + 1
    /\ pc' = "manifest"
    /\ summary' = <<HealingCycleSummary(audit_result.scanned_files,
                        Len(vulns), healed_count', entries')>>

\* Variant of Record: the entry is put at the head of the list.
RecordAtHead(p, healed, to_manifest) ==
    /\ entries' = <<HealingEntry(vulns[idx], p, healed)>> \o entries
    /\ manifest' = IF mode = "blocking" /\ to_manifest
                   THEN Append(manifest,
                               _build_manifest_entry(vulns[idx], healed, p,
                                   SigsHeld(last_response'["auditor"]),
                                   SigsHeld(last_response'["fixer"])))
                   ELSE manifest
    /\ healed_count' = healed_count + (IF healed THEN 1 ELSE 0)
    /\ idx' = idx + 1
    /\ IF idx = Len(vulns)
       THEN /\ pc' = "manifest"
            /\ summary' = <<HealingCycleSummary(audit_result.scanned_files,
                                Len(vulns), healed_count', entries')>>
       ELSE /\ pc' = "fixing"
            /\ UNCHANGED summary

\* The end of one iteration of the fix loop: the entry is appended (the
\* blocking coordinator also appends to the manifest, unless told not to);
\* after the last finding the summary is composed.
Record(p, healed, to_manifest) ==
    /\ entries' = Append(entries, HealingEntry(vulns[idx], p, healed))
    /\ manifest' = IF mode = "blocking" /\ to_manifest
                   THEN Append(manifest,
                               _build_manifest_entry(vulns[idx], healed, p,
                                   SigsHeld(last_response'["auditor"]),
                                   SigsHeld(last_response'["fixer"])))
                   ELSE manifest
    /\ healed_count' = healed_count + (IF healed THEN 1 ELSE 0)
    /\ idx' = idx + 1
    /\ IF idx = Len(vulns)
       THEN /\ pc' = "manifest"
            /\ summary' = <<HealingCycleSummary(audit_result.scanned_files,
                                Len(vulns), healed_count', entries')>>
       ELSE /\ pc' = "fixing"
            /\ UNCHANGED summary

\* One iteration of the fix loop whose read of the file raises OSError: the
\* path does not exist, or the read fails.  The entry is appended and the
\* loop continues; nothing is appended to the blocking manifest.
FixReadError ==
    /\ pc = "fixing"
    /\ last_response' = last_response
    /\ idx <= Len(vulns)
    /\ LET vuln == vulns[idx] IN
          /\ Trouble(vuln.file_path \in DOMAIN disk)
          /\ Record(PatchResult(vuln.file_path, <<>>, <<>>, FALSE,
                                <<"File read error">>), FALSE, FALSE)
          /\ ioLog' = Append(ioLog, [idx |-> idx,
                         io |-> IoOp("read", vuln.file_path, <<>>, FALSE)])
    /\ trace' = Pace(_using_fallback["fixer"])
    /\ now' = Elapse(now, SumDelays(trace'), backups)
    /\ call' = NoCall
    /\ UNCHANGED <<streamVars, settings, _using_fallback, n_switched, mode, root_is_dir,
                   files, results, audit_result, patch, disk, backups,
                   manifest_file>>

\* One iteration of the fix loop whose read of the file raises something
\* that is not an OSError (read_text decodes strictly, so a file holding
\* bytes that are not UTF-8 raises UnicodeDecodeError).  "except OSError"
\* does not catch it: it leaves the coordinator.
FixReadRaises ==
    /\ pc = "fixing"
    /\ idx <= Len(vulns)
    /\ vulns[idx].file_path \in DOMAIN disk
    /\ Trouble(TRUE)
    /\ ioLog' = Append(ioLog, [idx |-> idx,
                   io |-> IoOp("read", vulns[idx].file_path, <<>>, FALSE)])
    /\ pc' = "raised"
    /\ trace' = Pace(_using_fallback["fixer"])
    /\ now' = Elapse(now, SumDelays(trace'), backups)
    /\ call' = NoCall
    /\ UNCHANGED <<streamVars, last_response, settings, _using_fallback, n_switched, mode, root_is_dir,
                   files, idx, results, audit_result, patch, disk, backups,
                   entries, manifest, healed_count, summary, manifest_file>>

\* One iteration of the fix loop up to the apply step: pacing sleep, read of
\* the file, generate_patch.
FixFinding ==
    /\ pc = "fixing"
    /\ idx <= Len(vulns)
    /\ vulns[idx].file_path \in DOMAIN disk
    /\ \E script \in Scripts(FixEnds, <<>>) :
          LET vuln == vulns[idx]
              uf == _using_fallback["fixer"]
              original_code == read_text(disk, vuln.file_path)
              r == _generate_with_fallback(vuln, original_code, uf, 1, script,
                                           Pace(uf))
          IN /\ EngineEffects("fixer", r, FixAnswerOdd(Last(script)))
             /\ ioLog' = Append(ioLog, [idx |-> idx,
                    io |-> IoOp("read", vuln.file_path, original_code, TRUE)])
             /\ IF ShouldApply(r.ret)
                THEN /\ pc' = "applying"
                     /\ patch' = r.ret
                     /\ UNCHANGED <<entries, manifest, healed_count, idx,
                                    summary>>
                ELSE /\ Record(r.ret, FALSE, TRUE)
                     /\ patch' = NoPatch
    /\ UNCHANGED <<streamVars, settings, mode, root_is_dir, files, results, audit_result,
                   disk, backups, manifest_file>>

\* apply_patch and the bookkeeping after it.  Only the blocking coordinator
\* appends the failure to patch.message.
ApplyPatch ==
    /\ pc = "applying"
    /\ last_response' = last_response
    /\ \E copy_ok \in BOOLEAN, write_ok \in BOOLEAN :
          LET vuln == vulns[idx]
              w == _write_patch(vuln.file_path, patch.fixed_code, disk,
                                backups, now, copy_ok, write_ok)
              healed == w.raised = ""
              p == IF ~healed /\ mode = "blocking"
                   THEN [patch EXCEPT !.message = @ \o <<"Apply failed">>]
                   ELSE patch
          IN /\ disk' = w.disk
             /\ backups' = w.backups
             /\ ioLog' = ioLog \o [i \in 1..Len(w.ops) |->
                                      [idx |-> idx, io |-> w.ops[i]]]
             /\ Record(p, healed, TRUE)
             /\ Trouble(~healed)
    /\ patch' = NoPatch
    /\ trace' = <<>>
    /\ call' = NoCall
    /\ UNCHANGED <<streamVars, settings, _using_fallback, n_switched, mode, root_is_dir,
                   files, results, audit_result, now, manifest_file>>

\* The run is cancelled between two findings.  The coordinator has no test
\* of its own: the task is cancelled where it is suspended, and between two
\* findings that is "await asyncio.sleep(1)" at the head of the iteration,
\* where CancelledError is raised and leaves the coordinator.
CancelAtPacing ==
    /\ pc = "fixing"
    /\ idx > 1
    /\ idx <= Len(vulns)
    /\ pc' = "cancelled"
    /\ trace' = <<>>
    /\ call' = NoCall
    /\ UNCHANGED <<streamVars, last_response, settings, _using_fallback,
                   n_switched, mode, root_is_dir, files, idx, results,
                   audit_result, patch, disk, backups, now, ioLog, entries,
                   manifest, healed_count, summary, manifest_file, troubled>>

\* _write_manifest.  The blocking coordinator awaits it unguarded; the
\* streaming one wraps it in try / except and passes its entries list.
WriteManifest ==
    /\ pc = "manifest"
    /\ \E ok \in BOOLEAN :
          /\ Trouble(~ok)
          /\ IF ok
             THEN /\ manifest_file' = <<ManifestDoc(summary[1],
                         IF mode = "blocking" THEN manifest ELSE entries)>>
                  /\ pc' = "done"
             ELSE /\ UNCHANGED manifest_file
                  /\ pc' = (IF mode = "blocking" THEN "raised" ELSE "done")
    /\ trace' = <<>>
    /\ call' = NoCall
    /\ UNCHANGED <<streamVars, last_response, settings, _using_fallback, n_switched, mode, root_is_dir,
                   files, idx, results, audit_result, patch, disk, backups,
                   now, ioLog, entries, manifest, healed_count, summary>>

Next ==
    \/ StartRun
    \/ ScanUnit
    \/ AfterAudit
    \/ FixReadError
    \/ FixReadRaises
    \/ FixFinding
    \/ ApplyPatch
    \/ CancelAtPacing
    \/ WriteManifest

Spec == Init /\ [][Next]_vars

\* ------------------------------------------- the guard called on its own
\* FixerAgent.apply_patch / _write_patch is a public, static entry point:
\* GuardSpec is any sequence of calls of it, on existing and missing
\* targets, with any time passing between two calls (none included).  idx
\* numbers the calls, ioLog holds their disk operations and patch holds the
\* last call: its target, the content found, the content passed, whether it
\* returned, and the exception raised.
GuardPaths == {1, 2}
GuardTexts == {<<"x">>, <<"y">>}

GuardInit ==
    /\ settings = [GEMINI_MODEL |-> "flash", GEMINI_FALLBACK_MODEL |-> "pro"]
    /\ _using_fallback = [a \in Agents |-> FALSE]
    /\ n_switched = [a \in Agents |-> 0]
    /\ mode = "blocking"
    /\ pc = "guard"
    /\ root_is_dir = TRUE
    /\ files = 0
    /\ idx = 1
    /\ results = <<>>
    /\ audit_result = [vulnerabilities |-> <<>>, scanned_files |-> 0]
    /\ trace = <<>>
    /\ call = NoCall
    /\ patch = NoPatch
    /\ \E existing \in SUBSET GuardPaths :
          disk = [p \in existing |-> OriginalText]
    /\ backups = [k \in {} |-> <<>>]
    /\ now = 0
    /\ ioLog = <<>>
    /\ entries = <<>>
    /\ manifest = <<>>
    /\ healed_count = 0
    /\ summary = <<>>
    /\ manifest_file = <<>>
    /\ troubled = 0
    /\ last_response = [a \in Agents |-> NoResponse]
    /\ stream = <<>>
    /\ text_parts = <<>>
    /\ thinking_queue = <<>>
    /\ fixer_thinking_parts = <<>>
    /\ fixer_task = NoTask
    /\ sse = <<>>
    /\ attempt_no = 1

\* One call of _write_patch.
GuardApply ==
    /\ pc = "guard"
    /\ idx <= MaxGuardCalls
    /\ \E file_path \in GuardPaths, fixed_code \in GuardTexts,
          copy_ok \in BOOLEAN, write_ok \in BOOLEAN :
          LET w == _write_patch(file_path, fixed_code, disk, backups, now,
                                copy_ok, write_ok)
              found == IF file_path \in DOMAIN disk THEN disk[file_path]
                       ELSE <<>>
          IN \* an outcome that the call does not get to is not chosen
             /\ file_path \notin DOMAIN disk => (copy_ok /\ write_ok)
             /\ ~copy_ok => write_ok
             /\ disk' = w.disk
             /\ backups' = w.backups
             /\ ioLog' = ioLog \o [i \in 1..Len(w.ops) |->
                                      [idx |-> idx, io |-> w.ops[i]]]
             /\ patch' = PatchResult(file_path, found, fixed_code,
                                     w.raised = "", <<w.raised>>)
    /\ idx' = idx + 1
    /\ UNCHANGED <<streamVars, last_response, settings, _using_fallback, n_switched, mode, pc,
                   root_is_dir, files, results, audit_result, trace, call,
                   now, entries, manifest, healed_count, summary,
                   manifest_file, troubled>>

\* A second passes.
GuardTick ==
    /\ pc = "guard"
    /\ now < MaxClock
    /\ now' = now + 1
    /\ UNCHANGED <<streamVars, last_response, settings, _using_fallback, n_switched, mode, pc,
                   root_is_dir, files, idx, results, audit_result, trace,
                   call, patch, disk, backups, ioLog, entries, manifest,
                   healed_count, summary, manifest_file, troubled>>

GuardNext == GuardApply \/ GuardTick

GuardSpec == GuardInit /\ [][GuardNext]_vars

\* ------------------------------------------------ one streamed patch call
\* StreamSpec is the patch call of one finding in run_scan._stream: the task
\* _run_fixer consumes the service's stream part by part
\* (_stream_with_thinking), and the generator drains thinking_queue into
\* "thinking" events until it meets the sentinel, then awaits the task.
\* stream is the whole stream and idx the next part to consume.
StreamParts ==
    { Part(TRUE, <<"a">>, <<>>), Part(TRUE, <<"b">>, <<>>), Part(TRUE, <<>>, <<>>),
      Part(FALSE, <<"x">>, <<>>), Part(FALSE, <<"y">>, <<>>) }

_SENTINEL == <<"_SENTINEL">>

\* Variant of queue_put: the item goes to the head of the queue.
queue_put_front(q, item) == <<item>> \o q

\* asyncio.Queue.put on an unbounded queue.
queue_put(q, item) == Append(q, item)

StreamInit ==
    /\ settings = [GEMINI_MODEL |-> "flash", GEMINI_FALLBACK_MODEL |-> "pro"]
    /\ _using_fallback = [a \in Agents |-> FALSE]
    /\ n_switched = [a \in Agents |-> 0]
    /\ mode = "streaming"
    /\ pc = "create_task"
    /\ root_is_dir = TRUE
    /\ files = 1
    /\ idx = 1
    /\ results = <<>>
    /\ audit_result = [vulnerabilities |-> <<Vulnerability(1, 1)>>,
                       scanned_files |-> 1]
    /\ trace = <<>>
    /\ call = NoCall
    /\ patch = NoPatch
    /\ disk = [p \in {1} |-> OriginalText]
    /\ backups = [k \in {} |-> <<>>]
    /\ now = 0
    /\ ioLog = <<>>
    /\ entries = <<>>
    /\ manifest = <<>>
    /\ healed_count = 0
    /\ summary = <<>>
    /\ manifest_file = <<>>
    /\ troubled = 0
    /\ last_response = [a \in Agents |-> NoResponse]
    /\ stream \in UNION { [1..n -> StreamParts] : n \in 0..MaxChunks }
    /\ text_parts = <<>>
    /\ thinking_queue = <<>>
    /\ fixer_thinking_parts = <<>>
    /\ fixer_task = NoTask
    /\ sse = <<>>
    /\ attempt_no = 1

\* What a step of the streamed call leaves alone.
StreamFrame ==
    UNCHANGED <<settings, _using_fallback, n_switched, mode, root_is_dir,
                files, results, audit_result, trace, call, disk, backups,
                now, ioLog, entries, manifest, healed_count, summary,
                manifest_file, troubled, last_response, stream, attempt_no>>

\* fixer_task = asyncio.create_task(_run_fixer())
StreamCreateTask ==
    /\ pc = "create_task"
    /\ pc' = "draining"
    /\ fixer_task' = [state |-> "running", result |-> NoPatch]
    /\ UNCHANGED <<idx, patch, text_parts, thinking_queue,
                   fixer_thinking_parts, sse>>
    /\ StreamFrame

\* One turn of "async for chunk in stream": a part without text is skipped,
\* a reasoning part is handed to on_thinking (_on_thinking appends it to
\* fixer_thinking_parts and puts it on the queue), any other part is
\* appended to text_parts.
StreamChunk ==
    /\ fixer_task.state = "running"
    /\ idx <= Len(stream)
    /\ LET part == stream[idx] IN
          IF part.text = <<>>
          THEN UNCHANGED <<text_parts, thinking_queue, fixer_thinking_parts>>
          ELSE IF part.thought
          THEN /\ fixer_thinking_parts' = Append(fixer_thinking_parts, part.text)
               /\ thinking_queue' = queue_put(thinking_queue, part.text)
               /\ UNCHANGED text_parts
          ELSE /\ text_parts' = Append(text_parts, part.text)
               /\ UNCHANGED <<thinking_queue, fixer_thinking_parts>>
    /\ idx' = idx + 1
    /\ UNCHANGED <<pc, patch, fixer_task, sse>>
    /\ StreamFrame

\* The stream is at its end: _stream_with_thinking returns the joined text,
\* _generate_with_fallback builds the PatchResult from it, and _run_fixer
\* puts the sentinel on the queue and returns.
StreamEnd ==
    /\ fixer_task.state = "running"
    /\ idx > Len(stream)
    /\ LET r == _generate_with_fallback(vulns[1], read_text(disk, 1),
                     _using_fallback["fixer"], 1,
                     <<Outcome("ok", Flatten(text_parts))>>, <<>>)
       IN fixer_task' = [state |-> "finished", result |-> r.ret]
    /\ thinking_queue' = queue_put(thinking_queue, _SENTINEL)
    /\ UNCHANGED <<pc, idx, patch, text_parts, fixer_thinking_parts, sse>>
    /\ StreamFrame

\* One turn of the drain loop: "item = await thinking_queue.get()".
StreamDrain ==
    /\ pc = "draining"
    /\ thinking_queue # <<>>
    /\ LET item == Head(thinking_queue) IN
          IF item = _SENTINEL
          THEN pc' = "await_task" /\ UNCHANGED sse
          ELSE sse' = Append(sse, item) /\ UNCHANGED pc
    /\ thinking_queue' = Tail(thinking_queue)
    /\ UNCHANGED <<idx, patch, text_parts, fixer_thinking_parts, fixer_task>>
    /\ StreamFrame

\* Variant of StreamAwait: the result is taken from the task without waiting for the
\* sentinel or the end of the task.
StreamAwaitNoWait ==
    /\ pc \in {"draining", "await_task"}
    /\ fixer_task.state # "none"
    /\ patch' = fixer_task.result
    /\ pc' = "got_patch"
    /\ UNCHANGED <<idx, text_parts, thinking_queue, fixer_thinking_parts,
                   fixer_task, sse>>
    /\ StreamFrame

\* patch = await fixer_task
StreamAwait ==
    /\ pc = "await_task"
    /\ fixer_task.state = "finished"
    /\ patch' = fixer_task.result
    /\ pc' = "got_patch"
    /\ UNCHANGED <<idx, text_parts, thinking_queue, fixer_thinking_parts,
                   fixer_task, sse>>
    /\ StreamFrame

\* ------------------------------- one streamed patch call, with retries
\* StreamRetrySpec is the same call with everything _generate_with_fallback
\* does around the stream: an attempt ends normally or raises, at its start
\* or after some parts, a quota error is slept on and retried on a new
\* stream, and the fourth attempt goes to the fallback model.
RetryParts == { Part(TRUE, <<"a">>, <<>>), Part(FALSE, <<"x">>, <<>>) }

RetryStreams == UNION { [1..n -> RetryParts] : n \in 0..MaxRetryChunks }

AttemptKinds == {"ok", "quota", "client_error", "exception"}

StreamRetryInit ==
    /\ settings \in { [GEMINI_MODEL |-> "flash", GEMINI_FALLBACK_MODEL |-> f] :
                         f \in {"flash", "pro"} }
    /\ _using_fallback \in [Agents -> BOOLEAN]
    /\ ~_using_fallback["auditor"]
    /\ n_switched = [a \in Agents |->
                        IF _using_fallback[a] THEN 1 ELSE 0]
    /\ _using_fallback["fixer"] =>
          settings.GEMINI_MODEL # settings.GEMINI_FALLBACK_MODEL
    /\ mode = "streaming"
    /\ pc = "create_task"
    /\ root_is_dir = TRUE
    /\ files = 1
    /\ idx = 1
    /\ results = <<>>
    /\ audit_result = [vulnerabilities |-> <<Vulnerability(1, 1)>>,
                       scanned_files |-> 1]
    /\ trace = <<>>
    /\ call = NoCall
    /\ patch = NoPatch
    /\ disk = [p \in {1} |-> OriginalText]
    /\ backups = [k \in {} |-> <<>>]
    /\ now = 0
    /\ ioLog = <<>>
    /\ entries = <<>>
    /\ manifest = <<>>
    /\ healed_count = 0
    /\ summary = <<>>
    /\ manifest_file = <<>>
    /\ troubled = 0
    /\ last_response = [a \in Agents |-> NoResponse]
    /\ stream \in RetryStreams
    /\ text_parts = <<>>
    /\ thinking_queue = <<>>
    /\ fixer_thinking_parts = <<>>
    /\ fixer_task = NoTask
    /\ sse = <<>>
    /\ attempt_no = 1

\* Variant of _run_fixer: the sentinel is put only after a call that
\* returned a patch.
_run_fixer_sentinel_on_success(q, result) ==
    [thinking_queue |-> IF result.success THEN queue_put(q, _SENTINEL) ELSE q,
     fixer_task |-> [state |-> "finished", result |-> result]]

\* _run_fixer once generate_patch has returned result: the sentinel is put
\* on the queue and the task ends with the result.
_run_fixer(q, result) ==
    [thinking_queue |-> queue_put(q, _SENTINEL),
     fixer_task |-> [state |-> "finished", result |-> result]]

\* The end of one attempt of the streamed call, stream being the parts the
\* service sends before it ends the stream or the attempt raises (at its
\* start when stream is empty, or after a part).
\* _generate_with_fallback handles it as in a call without stream; when it
\* goes on, the next attempt opens a new stream with an empty text_parts.
StreamAttemptEnds ==
    /\ fixer_task.state = "running"
    /\ idx > Len(stream)
    /\ \E kind \in AttemptKinds, next \in RetryStreams :
          /\ LET uf == _using_fallback["fixer"]
                 r == _generate_with_fallback(vulns[1], read_text(disk, 1),
                          uf, attempt_no,
                          <<Outcome(kind, Flatten(text_parts))>>, <<>>)
             IN /\ _using_fallback' = [_using_fallback EXCEPT !["fixer"] = r.uf]
                /\ n_switched' = [n_switched EXCEPT
                                     !["fixer"] = @ + Switched(r.trace)]
                /\ trace' = trace \o r.trace
                /\ now' = Elapse(now, SumDelays(r.trace), backups)
                /\ IF r.outcome = "pending"
                   THEN /\ attempt_no' = r.attempt
                        /\ stream' = next
                        /\ idx' = 1
                        /\ text_parts' = <<>>
                        /\ UNCHANGED <<thinking_queue, fixer_task>>
                   ELSE /\ next = <<>>
                        /\ thinking_queue' =
                              _run_fixer(thinking_queue, r.ret).thinking_queue
                        /\ fixer_task' =
                              _run_fixer(thinking_queue, r.ret).fixer_task
                        /\ UNCHANGED <<attempt_no, stream, idx, text_parts>>
    /\ UNCHANGED <<settings, mode, pc, root_is_dir, files, results,
                   audit_result, call, patch, disk, backups, ioLog, entries,
                   manifest, healed_count, summary, manifest_file, troubled,
                   last_response, fixer_thinking_parts, sse>>

\* The apply step of the streaming coordinator and entries.append: the
\* patch is applied when the call returned one; a failure of the apply is
\* logged and leaves the PatchResult as it is.
StreamApply ==
    /\ pc = "got_patch"
    /\ \E copy_ok \in BOOLEAN, write_ok \in BOOLEAN :
          LET vuln == vulns[1]
              w == _write_patch(vuln.file_path, patch.fixed_code, disk,
                                backups, now, copy_ok, write_ok)
              healed == ShouldApply(patch) /\ w.raised = ""
          IN /\ IF ShouldApply(patch)
                THEN /\ disk' = w.disk
                     /\ backups' = w.backups
                     /\ ioLog' = ioLog \o [i \in 1..Len(w.ops) |->
                                              [idx |-> 1, io |-> w.ops[i]]]
                ELSE /\ copy_ok /\ write_ok
                     /\ UNCHANGED <<disk, backups, ioLog>>
             /\ entries' = Append(entries, HealingEntry(vuln, patch, healed))
             /\ healed_count' = healed_count + (IF healed THEN 1 ELSE 0)
    /\ pc' = "recorded"
    /\ UNCHANGED <<streamVars, settings, _using_fallback, n_switched, mode,
                   root_is_dir, files, idx, results, audit_result, trace,
                   call, patch, now, manifest, summary, manifest_file,
                   troubled, last_response>>

StreamRetryNext ==
    \/ StreamCreateTask
    \/ StreamChunk
    \/ StreamAttemptEnds
    \/ StreamDrain
    \/ StreamAwait
    \/ StreamApply

StreamRetrySpec == StreamRetryInit /\ [][StreamRetryNext]_vars

\* The event loop runs a task that can run, and the service ends every
\* stream it opened.
StreamRetryFair == StreamRetrySpec /\ WF_vars(StreamRetryNext)

StreamNext ==
    \/ StreamCreateTask
    \/ StreamChunk
    \/ StreamEnd
    \/ StreamDrain
    \/ StreamAwait

StreamSpec == StreamInit /\ [][StreamNext]_vars

\* ------------------------------------------- signatures of one response
\* SigSpec is the collection of signatures for one manifest entry
\* (extract_thought_signatures and _build_manifest_entry) over every
\* response of up to MaxParts parts, reasoning or not, signed with a blob of
\* up to MaxBlobLen bytes or not signed.
SigBytes == {0, 255}

Blobs == UNION { [1..n -> SigBytes] : n \in 0..MaxBlobLen }

SigParts == { Part(thought, <<"t">>, sig) : thought \in BOOLEAN, sig \in Blobs }

SigInit ==
    /\ settings = [GEMINI_MODEL |-> "flash", GEMINI_FALLBACK_MODEL |-> "pro"]
    /\ _using_fallback = [a \in Agents |-> FALSE]
    /\ n_switched = [a \in Agents |-> 0]
    /\ mode = "blocking"
    /\ pc = "fixing"
    /\ root_is_dir = TRUE
    /\ files = 1
    /\ idx = 1
    /\ results = <<>>
    /\ audit_result = [vulnerabilities |-> <<Vulnerability(1, 1)>>,
                       scanned_files |-> 1]
    /\ trace = <<>>
    /\ call = NoCall
    /\ patch = PatchResult(1, OriginalText, <<>>, FALSE, <<"Gemini error">>)
    /\ disk = [p \in {1} |-> OriginalText]
    /\ backups = [k \in {} |-> <<>>]
    /\ now = 0
    /\ ioLog = <<>>
    /\ entries = <<>>
    /\ manifest = <<>>
    /\ healed_count = 0
    /\ summary = <<>>
    /\ manifest_file = <<>>
    /\ troubled = 0
    /\ \E agent \in Agents :
       \E parts \in UNION { [1..n -> SigParts] : n \in 0..MaxParts } :
          last_response = [a \in Agents |->
              IF a = agent
              THEN [agent |-> a, of |-> 1, parts |-> parts]
              ELSE NoResponse]
    /\ stream = <<>>
    /\ text_parts = <<>>
    /\ thinking_queue = <<>>
    /\ fixer_thinking_parts = <<>>
    /\ fixer_task = NoTask
    /\ sse = <<>>
    /\ attempt_no = 1

\* The end of one iteration of the blocking fix loop for a patch that is
\* not applied: the signatures of both agents' last responses are
\* collected and the manifest entry is appended.
SigRecord ==
    /\ pc = "fixing"
    /\ idx <= Len(vulns)
    /\ last_response' = last_response
    /\ Record(patch, FALSE, TRUE)
    /\ UNCHANGED <<streamVars, settings, _using_fallback, n_switched, mode,
                   root_is_dir, files, results, audit_result, trace, call,
                   patch, disk, backups, now, ioLog, manifest_file, troubled>>

SigNext == SigRecord

SigSpec == SigInit /\ [][SigNext]_vars

\* ------------------------------------------------------------ properties
\* The events of a step without the coordinator's pacing sleep, and its
\* inference attempts.
EngineEvents(tr) == SelectSeq(tr, LAMBDA ev : ev.e # "pace")
AttemptsOf(tr) == SelectSeq(tr, LAMBDA ev : ev.e = "attempt")
IdsDiffer == settings.GEMINI_MODEL # settings.GEMINI_FALLBACK_MODEL

\* C1: an apply call writes the target only after it has copied the
\* target's pre-write content to a backup in that same call; when the copy
\* fails the write is not attempted, the target keeps its content and the
\* finding is recorded as not healed.
C1_BackupBeforeOverwrite ==
    [][pc = "applying" =>
         LET path == vulns[idx].file_path
             ops == SubSeq(ioLog', Len(ioLog) + 1, Len(ioLog'))
             wrote == \E i \in 1..Len(ops) : ops[i].io.op = "write"
         IN /\ (wrote \/ disk' # disk) =>
                  /\ Len(ops) = 2
                  /\ ops[1].io = IoOp("copy", path, disk[path], TRUE)
                  /\ ops[2].io.op = "write"
                  /\ \E k \in DOMAIN backups' :
                        k[1] = path /\ backups'[k] = disk[path]
            /\ (ops # <<>> /\ ~ops[1].io.ok) =>
                  /\ Len(ops) = 1
                  /\ disk' = disk
                  /\ ~Last(entries').healed
            /\ \A q \in DOMAIN disk : q # path => disk'[q] = disk[q]
    ]_vars

\* A run in which one target was overwritten and the backup copy of
\* another apply call failed.
C1_Witness ==
    /\ \E i \in 1..Len(ioLog) : ioLog[i].io.op = "write" /\ ioLog[i].io.ok
    /\ \E j \in 1..Len(ioLog) : ioLog[j].io.op = "copy" /\ ~ioLog[j].io.ok

\* C2: an entry is healed exactly when its patch has success = true and
\* the apply call for that finding ran to its end (the write of the target
\* succeeded); no entry is healed without its file having been overwritten.
C2_HealedIffApplied ==
    \A i \in 1..Len(entries) :
        entries[i].healed <=>
            /\ entries[i].patch.success
            /\ \E j \in 1..Len(ioLog) :
                  /\ ioLog[j].idx = i
                  /\ ioLog[j].io.op = "write"
                  /\ ioLog[j].io.ok
                  /\ ioLog[j].io.path = entries[i].vulnerability.file_path

\* A healed entry next to one whose patch succeeded but whose apply failed.
C2_Witness ==
    /\ \E i \in 1..Len(entries) : entries[i].healed
    /\ \E j \in 1..Len(entries) :
          entries[j].patch.success /\ ~entries[j].healed

\* C3: an agent that is on the fallback model stays on it: neither between
\* two steps nor within one call does active_model go back to the primary.
C3_NoReturnToPrimary ==
    [][/\ \A a \in Agents :
             /\ _using_fallback[a] => _using_fallback'[a]
             /\ (IdsDiffer /\ active_model(_using_fallback[a])
                                 = settings.GEMINI_FALLBACK_MODEL)
                   => active_model(_using_fallback'[a])
                          = settings.GEMINI_FALLBACK_MODEL
       /\ \A i \in 1..Len(trace'), j \in 1..Len(trace') :
             (i < j /\ trace'[i].uf) =>
                 /\ trace'[j].uf
                 /\ trace'[j].e = "attempt" =>
                        trace'[j].m = settings.GEMINI_FALLBACK_MODEL
    ]_vars

\* A call that an agent began on the fallback model.
C3_Witness ==
    /\ call.agent \in Agents
    /\ _using_fallback[call.agent]
    /\ AttemptsOf(trace) # <<>>
    /\ AttemptsOf(trace)[1].uf
    /\ AttemptsOf(trace)[1].m = "pro"

\* C4: switch_to_fallback returns true, and sets the flag, only when the
\* agent is on the primary model and the two ids differ; otherwise it
\* returns false and leaves the flag as it was; once it has returned true
\* for an agent it returns false to that agent ever after.
C4_SwitchOnlyFromPrimary ==
    /\ \A i \in 1..Len(trace) :
          trace[i].e = "switch" =>
              /\ i > 1
              /\ (trace[i].r = "switched") <=> (~trace[i - 1].uf /\ IdsDiffer)
              /\ trace[i].uf = (trace[i - 1].uf \/ trace[i].r = "switched")
              /\ \A j \in 1..(i - 1) :
                    (trace[j].e = "switch" /\ trace[j].r = "switched")
                        => trace[i].r = "refused"
    /\ \A a \in Agents : n_switched[a] <= 1

\* A call in which the switch was granted and a later request was refused.
C4_Witness ==
    \E i \in 1..Len(trace), j \in 1..Len(trace) :
        /\ i < j
        /\ trace[i].e = "switch" /\ trace[i].r = "switched"
        /\ trace[j].e = "switch" /\ trace[j].r = "refused"

\* C5: one call of the retry engine makes at most _MAX_RETRIES attempts
\* against any one model and at most twice as many in all; at most
\* _MAX_RETRIES in all when the two ids are equal or the agent began the
\* call on the fallback model.
C5_AttemptBudget ==
    LET at == AttemptsOf(trace) IN
    /\ Len(at) <= 2 * _MAX_RETRIES
    /\ \A m \in {settings.GEMINI_MODEL, settings.GEMINI_FALLBACK_MODEL} :
          Len(SelectSeq(at, LAMBDA ev : ev.m = m)) <= _MAX_RETRIES
    /\ (at # <<>> /\ (~IdsDiffer \/ at[1].uf)) => Len(at) <= _MAX_RETRIES

\* A call that used up both models.
C5_Witness ==
    /\ Len(AttemptsOf(trace)) = 2 * _MAX_RETRIES
    /\ call.outcome = "exhausted"

\* C6: when the third attempt of a round ends in a quota error the engine
\* sleeps and then requests the switch; a granted switch is followed by a
\* fresh round of at most _MAX_RETRIES attempts, counted from 1 and all on
\* the fallback model; a refused switch ends the call with the failure,
\* and no attempt follows it.
C6_SwitchAfterExhaustion ==
    LET tr == EngineEvents(trace) IN
    \A i \in 1..Len(tr) :
        /\ (tr[i].e = "attempt" /\ tr[i].k = _MAX_RETRIES
                /\ tr[i].r = "quota") =>
              /\ Len(tr) >= i + 2
              /\ tr[i + 1].e = "sleep"
              /\ tr[i + 2].e = "switch"
        /\ tr[i].e = "switch" =>
              /\ i > 2
              /\ tr[i - 2].e = "attempt" /\ tr[i - 2].k = _MAX_RETRIES
              /\ tr[i - 2].r = "quota"
        /\ (tr[i].e = "switch" /\ tr[i].r = "switched") =>
              /\ Len(tr) > i
              /\ tr[i + 1].e = "attempt" /\ tr[i + 1].k = 1
              /\ \A j \in (i + 1)..Len(tr) :
                    tr[j].e = "attempt" =>
                        /\ tr[j].m = settings.GEMINI_FALLBACK_MODEL
                        /\ tr[j].k <= _MAX_RETRIES
              /\ Len(AttemptsOf(SubSeq(tr, i + 1, Len(tr)))) <= _MAX_RETRIES
        /\ (tr[i].e = "switch" /\ tr[i].r = "refused") =>
              /\ i = Len(tr)
              /\ call.outcome = "exhausted"
              /\ call.findings = <<>>
              /\ ~call.patch.success

\* A call that switched after three quota errors and got its answer from
\* the fallback model.
C6_Witness ==
    LET tr == EngineEvents(trace) IN
    /\ \E i \in 1..Len(tr) : tr[i].e = "switch" /\ tr[i].r = "switched"
    /\ Last(tr).e = "attempt" /\ Last(tr).r = "ok" /\ Last(tr).m = "pro"

\* C7: an attempt that ends in an error other than a quota error is the
\* last thing the call does: no sleep, no switch request and no attempt
\* follows, the agent's model is what it was, and the failure is that of
\* this unit or finding only (the coordinator goes on).
C7_AbortOnOtherError ==
    LET tr == EngineEvents(trace) IN
    \A i \in 1..Len(tr) :
        (tr[i].e = "attempt" /\ tr[i].r \notin {"ok", "quota"}) =>
            /\ i = Len(tr)
            /\ call.outcome = tr[i].r
            /\ i > 1 => tr[i - 1].uf = tr[i].uf
            /\ _using_fallback[call.agent] = tr[i].uf
            /\ pc \in {"scanning", "audited", "fixing", "manifest"}
            /\ call.agent = "auditor" => call.findings = <<>>
            /\ call.agent = "fixer" =>
                  /\ ~Last(entries).patch.success
                  /\ ~Last(entries).healed

\* A call whose second attempt, after one quota error, ended in a
\* ClientError of another code.
C7_Witness ==
    LET at == AttemptsOf(trace) IN
    /\ Len(at) = 2
    /\ at[1].r = "quota"
    /\ at[2].r = "client_error"

Delays(tr) ==
    LET sl == SelectSeq(tr, LAMBDA ev : ev.e = "sleep")
    IN [i \in 1..Len(sl) |-> sl[i].d]

ThreeQuotaFirst(at) ==
    Len(at) >= _MAX_RETRIES /\ \A i \in 1.._MAX_RETRIES : at[i].r = "quota"

\* C9 (as stated): when the first three attempts get quota errors and the
\* fourth succeeds, the sleeps are 2, 4, 8 and no switch has been requested.
C9_NoSwitchBeforeFourth ==
    LET tr == EngineEvents(trace)
        at == AttemptsOf(tr)
    IN (ThreeQuotaFirst(at) /\ Len(at) = 4 /\ at[4].r = "ok") =>
           /\ Delays(tr) = <<2, 4, 8>>
           /\ \A i \in 1..Len(tr) : tr[i].e # "switch"

\* C9 (amended): when the first three attempts get quota errors the call
\* sleeps 2, 4 and 8 after them and requests the switch right after the
\* third sleep; there is a fourth attempt only if the switch was granted,
\* and it goes to the fallback model; when it succeeds the sleeps were
\* exactly 2, 4, 8 and exactly one switch was requested.
C9_SwitchAfterThird ==
    LET tr == EngineEvents(trace)
        at == AttemptsOf(tr)
    IN ThreeQuotaFirst(at) =>
           /\ Len(tr) >= 7
           /\ \A i \in 1..3 :
                 /\ tr[2 * i - 1] = at[i] /\ at[i].k = i
                 /\ tr[2 * i].e = "sleep"
                 /\ tr[2 * i].d = _BASE_DELAY * (2 ^ (i - 1))
           /\ tr[7].e = "switch"
           /\ tr[7].r = "refused" => Len(tr) = 7
           /\ Len(at) >= 4 =>
                 /\ tr[7].r = "switched"
                 /\ tr[8] = at[4]
                 /\ at[4].m = settings.GEMINI_FALLBACK_MODEL
           /\ (Len(at) = 4 /\ at[4].r = "ok") =>
                 /\ Delays(tr) = <<2, 4, 8>>
                 /\ Len(SelectSeq(tr, LAMBDA ev : ev.e = "switch")) = 1

\* Three quota errors, then an answer.
C9_Witness ==
    LET at == AttemptsOf(trace) IN
    /\ Len(at) = 4
    /\ ThreeQuotaFirst(at)
    /\ at[4].r = "ok"

\* C10 (as stated): a call of the retry engine that did not get a usable
\* response returns something no usable response could have produced: not
\* a list of findings that an answer could parse to (the empty list among
\* them), not a successful patch.
C10_FailureDistinguishable ==
    /\ (call.agent = "auditor" /\ call.outcome # "ok") =>
          call.findings \notin
              { _parse_response(r, call.unit) :
                  r \in AuditResponses(call.unit, MaxFindings) }
    /\ (call.agent = "fixer" /\ call.outcome # "ok") => ~call.patch.success

\* C11 (as stated): whatever fails while a finding is being fixed (the read
\* of the file, the generation, the apply call), the finding gets an entry
\* whose patch has success = false and a message, and the failure does not
\* end the run.
C11_FixFailureContained ==
    \A j \in 1..Len(ioLog) :
        ~ioLog[j].io.ok =>
            LET i == ioLog[j].idx IN
            /\ Len(entries) >= i
            /\ ~entries[i].patch.success
            /\ entries[i].patch.message # <<>>
            /\ ~entries[i].healed
            /\ pc = "raised" => Len(entries) = Len(vulns)

\* C12 (as stated): when run_self_healing_cycle completes, the manifest on
\* disk holds one entry per finding of the scan, in the scan's order, the
\* findings whose fix failed at the read, the generation or the apply step
\* among them.
C12_ManifestComplete ==
    (mode = "blocking" /\ pc = "done") =>
        /\ manifest_file # <<>>
        /\ LET es == manifest_file[1].entries IN
           /\ Len(es) = Len(vulns)
           /\ \A i \in 1..Len(es) :
                 /\ es[i].file_path = vulns[i].file_path
                 /\ es[i].line_number = vulns[i].line_number

\* C13: a unit whose call fails (an error that is not a quota error, both
\* models exhausted, an answer that does not parse) contributes no finding
\* and the scan goes on with the next unit; the findings returned are the
\* units' findings concatenated in unit order and scanned_files is the
\* number of units, whatever failed.
C13_ScanGoesOn ==
    [][pc = "scanning" =>
         LET got == call'.findings IN
         /\ call'.agent = "auditor" /\ call'.unit = idx
         /\ call'.outcome # "ok" => got = <<>>
         /\ \A u \in Units : _parse_response(NoAuditResponse, u) = <<>>
         /\ idx < files =>
               /\ pc' = "scanning"
               /\ idx' = idx + 1
               /\ results' = Append(results, got)
         /\ idx = files =>
               /\ pc' = "audited"
               /\ audit_result'.vulnerabilities = Flatten(results) \o got
               /\ audit_result'.scanned_files = files
    ]_vars

\* The call for the first unit failed and the second unit is up next.
C13_Witness ==
    /\ pc = "scanning"
    /\ idx = 2
    /\ call.agent = "auditor" /\ call.unit = 1
    /\ call.outcome \in {"client_error", "exception", "exhausted"}
    /\ results = << <<>> >>

\* C14 (as stated): when the write of the manifest fails at the end of a
\* run, the run still ends by returning the summary; the failed write is
\* not an error of the run.
C14_ManifestWriteBestEffort ==
    (summary # <<>> /\ pc \notin {"manifest"}) => pc = "done"

\* C15: when the scanner raises (the root is not a directory), the run
\* ends there with the error: run_self_healing_cycle raises, no patcher
\* call and no apply call is made, no summary is composed and no manifest
\* is written.
C15_ScannerErrorIsFatal ==
    (~root_is_dir /\ pc # "init") =>
        /\ pc = (IF mode = "blocking" THEN "raised" ELSE "done")
        /\ call = NoCall
        /\ trace = <<>>
        /\ ioLog = <<>>
        /\ entries = <<>>
        /\ summary = <<>>
        /\ manifest_file = <<>>
        /\ backups = [k \in {} |-> <<>>]

\* A blocking run that ended with the scanner's error.
C15_Witness ==
    ~root_is_dir /\ mode = "blocking" /\ pc = "raised"

\* C16 (as stated): whatever the timing of the guard's calls, a backup once
\* made stays as it is (never removed, never given another content), and
\* every call that returns has added a backup.
C16_BackupsOnlyGrow ==
    [][pc = "guard" =>
         /\ \A k \in DOMAIN backups :
               k \in DOMAIN backups' /\ backups'[k] = backups[k]
         /\ (idx' # idx /\ patch'.success) =>
               Cardinality(DOMAIN backups') = Cardinality(DOMAIN backups) + 1
    ]_vars

\* The write operations that succeeded, in call order.
WritesDone == SelectSeq(ioLog, LAMBDA o : o.io.op = "write" /\ o.io.ok)

\* C17 (as stated): two calls in succession, with the same content for the
\* same existing file, whatever the time between them, leave two distinct
\* backups, the first with the content found by the first call and the
\* second with the new content, and the target holds the new content.
C17_TwoCallsTwoBackups ==
    (pc = "guard" /\ idx > 2) =>
        LET wr == WritesDone
            n == Len(wr)
        IN (/\ n >= 2
            /\ wr[n].idx = idx - 1 /\ wr[n - 1].idx = idx - 2
            /\ wr[n].io.path = wr[n - 1].io.path
            /\ wr[n].io.content = wr[n - 1].io.content) =>
               LET p == wr[n].io.path
                   before == (CHOOSE o \in { ioLog[j] : j \in 1..Len(ioLog) } :
                                 o.idx = idx - 2 /\ o.io.op = "copy").io.content
               IN /\ disk[p] = wr[n].io.content
                  /\ \E k1 \in DOMAIN backups, k2 \in DOMAIN backups :
                        /\ k1 # k2
                        /\ k1[1] = p /\ k2[1] = p
                        /\ backups[k1] = before
                        /\ backups[k2] = wr[n].io.content

\* C18: right after a call of the guard that returned, there is a backup
\* of the target holding what the target held when the call began, and the
\* target holds the content passed to the call.
C18_BackupHoldsPreWrite ==
    [][(pc = "guard" /\ idx' # idx /\ patch'.success) =>
         LET p == patch'.file_path IN
         /\ p \in DOMAIN disk
         /\ \E k \in DOMAIN backups' :
               k[1] = p /\ backups'[k] = disk[p]
         /\ disk'[p] = patch'.fixed_code
         /\ patch'.original_code = disk[p]
    ]_vars

\* A call that returned, on a target that held something else.
C18_Witness ==
    /\ pc = "guard"
    /\ patch.success
    /\ patch.original_code # patch.fixed_code
    /\ disk[patch.file_path] = patch.fixed_code
    /\ \E k \in DOMAIN backups :
          k[1] = patch.file_path /\ backups[k] = patch.original_code

\* C19: on a target that does not exist the guard raises FileNotFoundError
\* and leaves the disk as it is: no backup, no target.
C19_MissingTargetNoEffect ==
    [][(pc = "guard" /\ idx' # idx /\ patch'.file_path \notin DOMAIN disk) =>
         /\ ~patch'.success
         /\ patch'.message = <<"FileNotFoundError">>
         /\ disk' = disk
         /\ backups' = backups
         /\ ioLog' = ioLog
    ]_vars

\* A call on a missing target.
C19_Witness ==
    /\ pc = "guard"
    /\ idx > 1
    /\ patch.file_path \notin DOMAIN disk
    /\ patch.message = <<"FileNotFoundError">>

\* C20: the coordinator's entries follow the scanner's findings: entry i
\* carries finding i and a patch whose file_path is that of finding i, and
\* the summary holds exactly one entry per finding, in that order, also
\* when several findings name the same file.
C20_EntriesFollowFindings ==
    /\ Len(entries) <= Len(vulns)
    /\ \A i \in 1..Len(entries) :
          /\ entries[i].vulnerability = vulns[i]
          /\ entries[i].patch.file_path = vulns[i].file_path
    /\ summary # <<>> =>
          /\ summary[1].entries = entries
          /\ Len(entries) = Len(vulns)
          /\ summary[1].vulnerabilities_found = Len(vulns)

\* A summary for two findings that name the same file.
C20_Witness ==
    /\ summary # <<>>
    /\ Len(summary[1].entries) = 2
    /\ vulns[1].file_path = vulns[2].file_path
    /\ vulns[1] # vulns[2]

\* The content of a path right before finding i is processed: what the last
\* healed entry before i wrote there, or what the run found at its start.
ContentBefore(i, path) ==
    LET earlier == { j \in 1..(i - 1) :
                       entries[j].healed
                       /\ entries[j].vulnerability.file_path = path }
    IN IF earlier = {} THEN OriginalText
       ELSE entries[CHOOSE j \in earlier : \A k \in earlier : k <= j]
                .patch.fixed_code

\* C21: the original_code given to the patcher and kept in the PatchResult
\* is what the file holds on disk when the finding is processed: for a
\* finding on a file that an earlier finding of the run patched, it is the
\* content written for that earlier finding, not what the scan read.
C21_OriginalIsCurrentContent ==
    \A j \in 1..Len(ioLog) :
        (ioLog[j].io.op = "read" /\ ioLog[j].io.ok) =>
            LET i == ioLog[j].idx
                expected == ContentBefore(i, ioLog[j].io.path)
            IN /\ ioLog[j].io.content = expected
               /\ i <= Len(entries) =>
                     entries[i].patch.original_code = expected
               /\ (i > Len(entries) /\ pc = "applying") =>
                     patch.original_code = expected

\* The second finding names the file the first finding patched, and its
\* original_code is what the first patch wrote.
C21_Witness ==
    /\ Len(entries) = 2
    /\ entries[1].healed
    /\ entries[1].vulnerability.file_path = entries[2].vulnerability.file_path
    /\ entries[2].patch.original_code = entries[1].patch.fixed_code
    /\ entries[2].patch.original_code # OriginalText

\* C22: when the scanner returns no finding, run_self_healing_cycle makes
\* no patcher call and no apply call, composes a summary with zero found,
\* zero healed and no entry, and writes a manifest with
\* vulnerabilities_found = 0 and an empty entries list before it returns.
C22_NoFindingsManifest ==
    (mode = "blocking" /\ root_is_dir /\ vulns = <<>>
        /\ pc \in {"manifest", "done", "raised"}) =>
        /\ summary = <<HealingCycleSummary(audit_result.scanned_files,
                                           0, 0, <<>>)>>
        /\ entries = <<>>
        /\ ioLog = <<>>
        /\ backups = [k \in {} |-> <<>>]
        /\ call.agent # "fixer"
        /\ ~_using_fallback["fixer"]
        /\ pc = "done" =>
              /\ manifest_file # <<>>
              /\ manifest_file[1].summary.vulnerabilities_found = 0
              /\ manifest_file[1].summary.vulnerabilities_healed = 0
              /\ manifest_file[1].entries = <<>>
        /\ pc = "raised" => troubled > 0

\* A blocking run over two files without findings, ended, its manifest
\* written.
C22_Witness ==
    /\ mode = "blocking"
    /\ pc = "done"
    /\ audit_result.scanned_files = 2
    /\ vulns = <<>>
    /\ manifest_file # <<>>
    /\ manifest_file[1].entries = <<>>

\* Nothing but white space (the empty text included).
Blank(s) == \A i \in 1..Len(s) : IsSpace(s[i])

\* The message of a PatchResult built for an empty answer.
EmptyResponseMessage == <<"Gemini returned an empty response.">>

\* C23: in both modes, an answer whose extracted replacement is empty or
\* white space only ends the call at once (no retry) with success = false,
\* fixed_code empty and the empty-response message; so every PatchResult
\* with success = true has a fixed_code that is not blank.
C23_EmptyFixIsFailure ==
    /\ \A uf \in BOOLEAN, raw \in RawTexts :
          LET v == Vulnerability(1, 1)
              r == _generate_with_fallback(v, OriginalText, uf, 1,
                       <<Outcome("ok", raw)>>, <<>>)
          IN Blank(_extract_code(raw)) =>
                /\ ~r.ret.success
                /\ r.ret.fixed_code = <<>>
                /\ r.ret.message = EmptyResponseMessage
                /\ Len(r.trace) = 1
                /\ r.uf = uf
    /\ call.agent = "fixer" =>
          /\ call.patch.success => ~Blank(call.patch.fixed_code)
          /\ call.patch.message = EmptyResponseMessage =>
                /\ ~call.patch.success
                /\ call.patch.fixed_code = <<>>
                /\ Last(trace).e = "attempt" /\ Last(trace).r = "ok"
    /\ \A i \in 1..Len(entries) :
          entries[i].patch.success => ~Blank(entries[i].patch.fixed_code)

\* A streaming run in which the patcher's answer held only white space or
\* an empty code fence.
C23_Witness ==
    /\ mode = "streaming"
    /\ call.agent = "fixer"
    /\ call.outcome = "ok"
    /\ call.patch.message = EmptyResponseMessage
    /\ Len(AttemptsOf(trace)) = 1

\* The texts of the reasoning parts (thought = TRUE) or of the answer parts
\* (thought = FALSE) among the first n parts of the stream, in arrival
\* order, parts without text left out.
RECURSIVE ArrivedTexts(_, _)
ArrivedTexts(thought, n) ==
    IF n = 0 THEN <<>>
    ELSE LET part == stream[n] IN
         IF part.text # <<>> /\ part.thought = thought
         THEN Append(ArrivedTexts(thought, n - 1), part.text)
         ELSE ArrivedTexts(thought, n - 1)

\* The items of the queue that are not the sentinel.
QueuedThoughts == SelectSeq(thinking_queue, LAMBDA item : item # _SENTINEL)

\* C24: within one streaming Patcher call the reasoning parts reach the
\* observer in arrival order, each before any later part is consumed (what
\* the sink holds, and what was yielded plus what is queued, is at every
\* moment exactly the reasoning text of the parts consumed so far); the
\* answer is the concatenation of the answer parts in arrival order; and
\* when the result is available every reasoning part has been delivered.
C24_ThinkingInArrivalOrder ==
    /\ fixer_thinking_parts = ArrivedTexts(TRUE, idx - 1)
    /\ sse \o QueuedThoughts = fixer_thinking_parts
    /\ text_parts = ArrivedTexts(FALSE, idx - 1)
    /\ fixer_task.state = "finished" =>
         /\ fixer_thinking_parts = ArrivedTexts(TRUE, Len(stream))
         /\ fixer_task.result.fixed_code
              = _extract_code(Flatten(ArrivedTexts(FALSE, Len(stream))))
    /\ pc = "got_patch" =>
         /\ sse = ArrivedTexts(TRUE, Len(stream))
         /\ patch = fixer_task.result

\* Reasoning a, b, then answer x, y: the observer got a, then b, and the
\* result is xy.
C24_Witness ==
    /\ pc = "got_patch"
    /\ [i \in 1..Len(stream) |-> stream[i].text]
         = << <<"a">>, <<"b">>, <<"x">>, <<"y">> >>
    /\ sse = << <<"a">>, <<"b">> >>
    /\ patch.success
    /\ patch.fixed_code = <<"x", "y">>

\* C25: a scan answer that is valid JSON but not a list (a single object),
\* or that is malformed, yields no Finding for its unit.
C25_NonListYieldsNothing ==
    (call.agent = "auditor" /\ call.outcome = "ok" /\ call.answer # "list")
        => call.findings = <<>>

\* The malformed half of C25: an answer that is not JSON yields no Finding,
\* the call ends normally and the scan goes on to the next unit or to its
\* end.
C25_MalformedYieldsNothing ==
    (call.agent = "auditor" /\ call.outcome = "ok"
        /\ call.answer = "malformed")
        => /\ call.findings = <<>>
           /\ pc \in {"scanning", "audited"}

\* C26: every item of a scan answer that lacks the unit-identifier field
\* becomes a Finding that carries the unit the answer was generated from:
\* the call yields one Finding per well-formed item, in order, and the
\* Finding of an item without the field names the call's unit.
C26_MissingUnitFilledIn ==
    (call.agent = "auditor" /\ call.outcome = "ok") =>
        LET kept == SelectSeq(call.raw, LAMBDA it : it.valid) IN
        /\ Len(call.findings) = Len(kept)
        /\ \A i \in 1..Len(kept) :
              /\ call.findings[i].line_number = kept[i].line_number
              /\ call.findings[i].file_path =
                    IF kept[i].file_path = NoKey THEN call.unit
                    ELSE kept[i].file_path

\* The answer for the second unit holds two well-formed items without the
\* field: exactly two Findings, both naming unit 2.
C26_Witness ==
    /\ call.agent = "auditor" /\ call.outcome = "ok" /\ call.unit = 2
    /\ call.answer = "list"
    /\ Len(call.raw) = 2
    /\ \A i \in 1..2 : call.raw[i].file_path = NoKey /\ call.raw[i].valid
    /\ Len(call.findings) = 2
    /\ \A i \in 1..2 : call.findings[i].file_path = 2

\* The blobs that the stored signatures of a manifest entry decode to.
BlobsOf(signatures) ==
    [k \in 1..Len(signatures) |-> b64decode(signatures[k].thought_signature)]

\* The blobs of the response to the call made by agent for unit or finding
\* number of.
BlobsOfCall(agent, of) ==
    LET signed == SelectSeq(Response(agent, of).parts,
                     LAMBDA part : part.thought /\ part.thought_signature # <<>>)
    IN [k \in 1..Len(signed) |-> signed[k].thought_signature]

\* C27: the Scanner-side signature blobs of every manifest entry are those
\* of the Scanner call for the entry's own unit, also when several units
\* were scanned and a later call replaced the stored response.
C27_ScannerBlobsOfOwnUnit ==
    \A i \in 1..Len(manifest) :
        manifest[i].file_path \in 1..files =>
            BlobsOf(manifest[i].auditor_thought_signatures)
                = BlobsOfCall("auditor", manifest[i].file_path)

\* C28: the Patcher-side signature blobs of every manifest entry are those
\* of the Patcher call for the entry's own Finding; the entry of a Finding
\* whose Patcher call failed carries no blob of another Finding's call.
C28_PatcherBlobsOfOwnFinding ==
    [][Len(manifest') > Len(manifest) =>
          LET blobs == BlobsOf(Last(manifest').fixer_thought_signatures) IN
          \/ blobs = BlobsOfCall("fixer", idx)
          \/ blobs = <<>> /\ ~Last(entries').patch.success]_vars

\* The parts of a response that are tagged as reasoning and carry a
\* non-empty signature blob.
SignedThoughts(response) ==
    SelectSeq(response.parts,
              LAMBDA part : part.thought /\ Len(part.thought_signature) > 0)

\* C29: every signature stored in a manifest entry is the reversible text
\* encoding of a non-empty blob taken from a reasoning-tagged part of the
\* response: the stored signatures are, in order, those of the reasoning
\* parts that carry a blob (any other part contributes none), each is a
\* text over the base64 alphabet, decoding it gives back the blob, and the
\* decoded length is not zero.
C29_SignaturesRoundTrip ==
    \A i \in 1..Len(manifest) : \A a \in Agents :
        LET stored == IF a = "auditor"
                      THEN manifest[i].auditor_thought_signatures
                      ELSE manifest[i].fixer_thought_signatures
            signed == SignedThoughts(last_response[a])
        IN /\ Len(stored) = Len(signed)
           /\ \A k \in 1..Len(stored) :
                LET text == stored[k].thought_signature IN
                /\ \A c \in 1..Len(text) :
                      \/ text[c] = "="
                      \/ \E v \in 1..64 : B64Chars[v] = text[c]
                /\ Len(text) >= 4
                /\ b64decode(text) = signed[k].thought_signature
                /\ Len(b64decode(text)) > 0

\* An entry stored for a response whose parts are a reasoning part signed
\* with three bytes and a reasoning part without signature: one signature,
\* "AP8A", which decodes to the three bytes.
C29_Witness ==
    /\ Len(manifest) = 1
    /\ LET parts == last_response["fixer"].parts IN
          /\ Len(parts) = 2
          /\ parts[1].thought /\ parts[1].thought_signature = <<0, 255, 0>>
          /\ parts[2].thought /\ parts[2].thought_signature = <<>>
    /\ Len(manifest[1].fixer_thought_signatures) = 1
    /\ manifest[1].fixer_thought_signatures[1].thought_signature
         = <<"A", "P", "8", "A">>
    /\ manifest[1].auditor_thought_signatures = <<>>

\* C30: after the Patcher returned a PatchOutcome, the coordinator and the
\* Guard change none of its fields, whatever the result of applying it: the
\* entry recorded after the apply step holds the PatchOutcome exactly as
\* the Patcher returned it.
C30_PatchOutcomeUntouched ==
    [][(pc = "applying" /\ Len(entries') > Len(entries))
          => Last(entries').patch = patch]_vars

\* The part of C30 that holds: original_code, fixed_code and success of the
\* recorded PatchOutcome are those the Patcher returned, and in a streaming
\* run so is the message.
C30_OnlyMessageTouched ==
    [][(pc = "applying" /\ Len(entries') > Len(entries))
          => LET p == Last(entries').patch IN
             /\ p.file_path = patch.file_path
             /\ p.original_code = patch.original_code
             /\ p.fixed_code = patch.fixed_code
             /\ p.success = patch.success
             /\ mode = "streaming" => p.message = patch.message]_vars

\* The number of quota errors among the events tr[1..j] that came after the
\* last switch among them: the consecutive quota failures on the model in
\* use at event j.
RECURSIVE QuotaRun(_, _)
QuotaRun(tr, j) ==
    IF j = 0 \/ tr[j].e = "switch" THEN 0
    ELSE QuotaRun(tr, j - 1)
            + (IF tr[j].e = "attempt" /\ tr[j].r = "quota" THEN 1 ELSE 0)

\* C31: after the k-th consecutive quota-exceeded failure on the current
\* model (k = 1, 2, 3) the retry engine sleeps exactly 2 * 2^(k-1) time
\* units: every quota failure is followed at once by a sleep, every sleep
\* follows a quota failure, and its length is 2, 4 or 8 by the number of
\* quota failures since the call began or since the switch; after a switch
\* the count restarts, so the sleeps of a call that fails six times are
\* 2, 4, 8, 2, 4, 8.
C31_BackoffDoubles ==
    LET tr == EngineEvents(trace) IN
    /\ \A j \in 1..Len(tr) :
          /\ (tr[j].e = "attempt" /\ tr[j].r = "quota") =>
                j < Len(tr) /\ tr[j + 1].e = "sleep"
          /\ tr[j].e = "sleep" =>
                /\ j > 1 /\ tr[j - 1].e = "attempt" /\ tr[j - 1].r = "quota"
                /\ QuotaRun(tr, j) \in 1..3
                /\ tr[j].d = 2 * (2 ^ (QuotaRun(tr, j) - 1))
          /\ (tr[j].e = "switch" /\ tr[j].r = "switched" /\ j < Len(tr)) =>
                tr[j + 1].e = "attempt" /\ tr[j + 1].k = 1
    /\ Len(SelectSeq(tr, LAMBDA ev : ev.e = "attempt" /\ ev.r = "quota")) = 6
          => Delays(tr) = <<2, 4, 8, 2, 4, 8>>

\* A patch call that got six quota errors, three on each model.
C31_Witness ==
    /\ call.agent = "fixer"
    /\ call.outcome = "exhausted"
    /\ Switched(trace) = 1
    /\ Delays(EngineEvents(trace)) = <<2, 4, 8, 2, 4, 8>>

\* C32: every backoff sleep of the retry engine comes before a retry: each
\* sleep of a call is followed, in that call, by another inference attempt,
\* and the call does not end on a sleep before it reports its final
\* failure.
C32_SleepOnlyBeforeRetry ==
    LET tr == EngineEvents(trace) IN
    \A j \in 1..Len(tr) :
        tr[j].e = "sleep" =>
            \E n \in (j + 1)..Len(tr) : tr[n].e = "attempt"

\* The part of C32 that holds: a sleep is followed at once either by the
\* next attempt on the same model or, after the third failure, by the
\* request to switch.
C32_SleepThenRetryOrSwitch ==
    LET tr == EngineEvents(trace) IN
    \A j \in 1..Len(tr) :
        tr[j].e = "sleep" =>
            /\ j < Len(tr)
            /\ \/ tr[j + 1].e = "attempt" /\ tr[j + 1].k = tr[j - 1].k + 1
               \/ tr[j + 1].e = "switch" /\ tr[j - 1].k = _MAX_RETRIES

\* The sentinel is on the queue.
SentinelQueued == \E i \in 1..Len(thinking_queue) : thinking_queue[i] = _SENTINEL

\* C33: in streaming mode the patch call runs as its own task and puts the
\* sentinel on the queue only after the call has finished, hence behind
\* every reasoning chunk it forwarded; the caller receives every forwarded
\* chunk before the sentinel, retrieves the task's result only after the
\* sentinel, and, whatever the outcome of the call (success, empty
\* response, service error, exhaustion on both models), eventually
\* observes the sentinel and gets the result.
C33_SentinelEndsTheDrain ==
    /\ [](SentinelQueued =>
             /\ fixer_task.state = "finished"
             /\ Last(thinking_queue) = _SENTINEL
             /\ sse \o QueuedThoughts = fixer_thinking_parts)
    /\ [](pc \in {"await_task", "got_patch"} =>
             /\ fixer_task.state = "finished"
             /\ sse = fixer_thinking_parts
             /\ thinking_queue = <<>>)
    /\ [](pc = "got_patch" => patch = fixer_task.result)
    /\ [](pc = "draining" => patch = NoPatch)
    /\ <>(pc = "got_patch")

\* The call failed with a quota error on every attempt of both models after
\* it had forwarded reasoning; the caller has seen the chunks, then the
\* sentinel, and holds the failure.
C33_Witness ==
    /\ pc = "got_patch"
    /\ patch.message = <<"Rate-limited on both models">>
    /\ Switched(trace) = 1
    /\ sse # <<>>
    /\ sse = fixer_thinking_parts

\* The reasoning texts of the attempt that the streamed call is at (when
\* the call has returned: of its last attempt).
LastAttemptThoughts == ArrivedTexts(TRUE, idx - 1)

\* C38: in streaming mode the reasoning chunks delivered to the observer
\* during one generate_patch call are those of the single attempt that
\* produced the returned result: no chunk of an attempt that ended in a
\* quota error reaches the sink, none is delivered twice over a retry or a
\* move to the fallback model.
C38_OnlyFinalAttemptStreamed ==
    (fixer_task.state = "finished" /\ Last(trace).e = "attempt") =>
        fixer_thinking_parts = LastAttemptThoughts

\* What holds in place of C38: the sink holds the reasoning chunks of every
\* attempt of the call, failed ones included, in the order of the attempts;
\* a call that made one attempt delivered exactly that attempt's chunks.
C38_EveryAttemptStreamed ==
    /\ Len(fixer_thinking_parts) >= Len(LastAttemptThoughts)
    /\ SubSeq(fixer_thinking_parts,
              Len(fixer_thinking_parts) - Len(LastAttemptThoughts) + 1,
              Len(fixer_thinking_parts)) = LastAttemptThoughts
    /\ (fixer_task.state = "finished" /\ Len(AttemptsOf(trace)) = 1) =>
          fixer_thinking_parts = LastAttemptThoughts

\* The moves of the blocking coordinator from one position to the next:
\* INIT is "init", SCANNING is "scanning" up to its end "audited", FIXING is
\* "fixing" and "applying", "manifest" is the write on the way to DONE, and
\* "raised" and "cancelled" are runs ended by an exception or from outside.
PhaseMoves ==
    { <<"init", "scanning">>, <<"init", "audited">>, <<"init", "raised">>,
      <<"scanning", "audited">>,
      <<"audited", "manifest">>, <<"audited", "fixing">>,
      <<"fixing", "applying">>, <<"applying", "fixing">>,
      <<"fixing", "manifest">>, <<"applying", "manifest">>,
      <<"fixing", "raised">>, <<"fixing", "cancelled">>,
      <<"manifest", "done">>, <<"manifest", "raised">> }

\* C34: every run of the blocking coordinator follows INIT, SCANNING, then
\* DONE or FIXING then DONE: the scan is entered once, from INIT, and is
\* over all units before the first Patcher call; no Scanner call happens
\* once FIXING has begun; the manifest is written once, in the step that
\* reaches DONE, after every Finding has been processed, and DONE is not
\* reached without it.
C34_RunPhases ==
    [][mode = "blocking" =>
          /\ pc' # pc => <<pc, pc'>> \in PhaseMoves
          /\ (call' # call /\ call'.agent = "auditor") =>
                /\ pc = "scanning"
                /\ entries = <<>> /\ ioLog = <<>>
          /\ (call' # call /\ call'.agent = "fixer") =>
                /\ pc = "fixing"
                /\ audit_result.scanned_files = files
                /\ audit_result' = audit_result
          /\ manifest_file' # manifest_file =>
                /\ pc = "manifest" /\ pc' = "done"
                /\ manifest_file = <<>> /\ Len(manifest_file') = 1
                /\ Len(entries) = Len(vulns)
          /\ pc' = "done" => Len(manifest_file') = 1]_vars

\* A blocking run with two findings that went through FIXING and is DONE,
\* its manifest written.
C34_Witness ==
    /\ mode = "blocking"
    /\ pc = "done"
    /\ files = 2
    /\ Len(vulns) = 2
    /\ Len(entries) = 2
    /\ Len(manifest_file) = 1

C35_FindingsInTurn ==
    /\ \A i, j \in 1..Len(ioLog) : i < j => ioLog[i].idx <= ioLog[j].idx
    /\ call.agent \in Agents => patch = NoPatch \/ pc = "applying"
    /\ pc = "applying" => (patch # NoPatch /\ call.agent = "fixer")

PacesOf(tr) == SelectSeq(tr, LAMBDA ev : ev.e = "pace")

\* C36: an iteration of the scan loop or of the fix loop other than the
\* first begins with one pacing sleep of 1 time unit, before its inference
\* call, also when the iteration before it ended in a file-read error; the
\* first iteration of either loop makes no pacing sleep.  (A run cancelled
\* during the pacing sleep begins no iteration.)
C36_PacedExceptFirst ==
    [][((pc = "scanning" \/ pc = "fixing") /\ pc' # "cancelled") =>
          /\ idx > 1 =>
                /\ Len(PacesOf(trace')) = 1
                /\ trace'[1].e = "pace"
                /\ trace'[1].d = 1
          /\ idx = 1 => PacesOf(trace') = <<>>]_vars

\* The first finding ended in a file-read error, and the Patcher call for
\* the second was made after one pacing sleep.
C36_Witness ==
    /\ Len(entries) = 1
    /\ entries[1].patch.message = <<"File read error">>
    /\ call.agent = "fixer"
    /\ Len(trace) >= 2
    /\ trace[1].e = "pace" /\ trace[1].d = 1
    /\ trace[2].e = "attempt"

C39_FindingsNameScannedUnits ==
    /\ \A i \in 1..Len(vulns) : vulns[i].file_path \in 1..files
    /\ \A i \in 1..Len(results) : \A j \in 1..Len(results[i]) :
          results[i][j].file_path \in 1..files
    /\ \A i \in 1..Len(ioLog) : ioLog[i].io.path \in 1..files
    /\ disk[OutsidePath] = OriginalText
    /\ \A k \in DOMAIN backups : k[1] \in 1..files

\* What holds in place of C39: a Finding names the unit its answer was
\* given for whenever the item named no path, and the coordinator reads and
\* writes exactly the paths the Findings name.
C39_OnlyNamedPathsTouched ==
    /\ \A i \in 1..Len(ioLog) :
          /\ ioLog[i].idx \in 1..Len(vulns)
          /\ ioLog[i].io.path = vulns[ioLog[i].idx].file_path
    /\ \A q \in DOMAIN disk :
          disk[q] # OriginalText =>
              \E i \in 1..Len(vulns) : vulns[i].file_path = q

\* The number of healed entries of a list.
HealedIn(es) == Len(SelectSeq(es, LAMBDA entry : entry.healed))

\* C40: the blocking and the streaming coordinator, driven by the same
\* outcomes, report the same healed flags and counts and persist a manifest
\* with the same number of entries: a finished run over a scanned root has
\* written its manifest unless the write itself failed, also with zero
\* Findings, and the manifest holds one entry per Finding, the Findings
\* whose file could not be read included (the list the blocking coordinator
\* persists is as long as the entries list, which is what the streaming
\* coordinator persists).
C40_ModesAgree ==
    /\ mode = "blocking" => Len(manifest) = Len(entries)
    /\ (pc = "done" /\ root_is_dir /\ troubled = 0) =>
          /\ Len(manifest_file) = 1
          /\ Len(manifest_file[1].entries) = Len(vulns)
    /\ healed_count = HealedIn(entries)

\* What holds in place of C40: in both modes the entries list has one entry
\* per processed finding and the healed count is the number of healed
\* entries; a manifest written by the streaming coordinator has one entry
\* per finding, one written by the blocking coordinator has one entry per
\* finding whose file could be read.
C40_HealedCountsAgree ==
    /\ healed_count = HealedIn(entries)
    /\ pc \in {"manifest", "done"} => Len(entries) = Len(vulns)
    /\ manifest_file # <<>> =>
          /\ manifest_file[1].summary.vulnerabilities_found = Len(vulns)
          /\ manifest_file[1].summary.vulnerabilities_healed = healed_count
          /\ mode = "streaming" =>
                Len(manifest_file[1].entries) = Len(vulns)
          /\ mode = "blocking" =>
                Len(manifest_file[1].entries) =
                    Len(SelectSeq(entries, LAMBDA entry :
                            entry.patch.message # <<"File read error">>))

====
